---- MODULE Spec2Model ----
(***************************************************************************)
(* Statme-bot: the aggregation service (bot/services/aggregation.py), its  *)
(* two Mongo collections (users, servers) and the windowed queries.        *)
(*                                                                         *)
(* A Mongo document is a record with an `exists` flag; a field or a day    *)
(* bucket the document does not hold reads as 0 (the code reads every      *)
(* counter with .get(name, 0)), an absent active_users array as {}.        *)
(* A datetime is its day ordinal counted from 2024-01-30 (no query or      *)
(* write of the service depends on the time of day); a day key is the      *)
(* <<year, month, day>> that strftime("%Y-%m-%d") prints.                    *)
(*                                                                         *)
(* Spec     events handled one at a time, and get_server_windows           *)
(* SpecTop  message events and get_top_users_by_messages                   *)
(* SpecConc a burst of one user's events, interleaved at every await       *)
(* SpecCrash    record_message stopped before or between its two writes    *)
(* SpecSummary  events handled one at a time, and get_user_summary         *)
(* SpecWindows  message events and the three windowed queries              *)
(* SpecDec      the guarded decrement on any document it can find          *)
(* SpecCache    MessageAuthorCache.put and get beside a reference LRU map  *)
(* SpecAdapter  the listeners: event filters and author resolution         *)
(* SpecFailing  the listeners with store calls that raise                  *)
(* SpecDays     the windowed queries for every window length               *)
(* SpecRank     the ranking on a store that already holds messages         *)
(* SpecPointers the stats message pointers beside the counting operations  *)
(* SpecRefresh  refresh_stats_message, one refresh at a time               *)
(* SpecReady    on_ready events interleaved at their awaits                *)
(* SpecLoops    the daily, weekly and monthly refresh loops                *)
(* SpecMalformed    the windowed queries on a store with a foreign day key *)
(* SpecOverlap  refreshes of the stats message interleaved at their awaits *)
(***************************************************************************)
EXTENDS Integers, Sequences, FiniteSets, TLC

\* ---------------------------------------------------------------- bounds
MaxUsers == 2
MaxDay == 2
MaxOps == 2
MaxWindow == 2
MaxProcs == 2
MaxLimit == 2
MaxPrior == 1
MaxSize == 2
MaxCacheOps == 4
MaxCount == 2

Users == 1..MaxUsers
Guilds == {1}
Days == 0..(MaxDay - 1)
None == 0

\* ------------------------------------------------------- bot/db/models.py
user_key(guild_id, user_id) == <<guild_id, user_id>>

\* strftime("%Y-%m-%d") of the day `ts` days after 2024-01-30
date_key(ts) ==
    IF ts < 2 THEN <<2024, 1, 30 + ts>> ELSE <<2024, 2, ts - 1>>

\* the length of a month of 2024
days_in_month(month) ==
    IF month = 2 THEN 29 ELSE IF month \in {4, 6, 9, 11} THEN 30 ELSE 31

\* datetime.strptime(day_key, DATE_FORMAT) raises ValueError: the key names
\* no day of the calendar
ValueError(day_key) ==
    ~(day_key[2] \in 1..12 /\ day_key[3] \in 1..days_in_month(day_key[2]))

\* datetime.strptime(day_key, DATE_FORMAT).date(), as a day ordinal, of a key
\* that names a day
strptime(day_key) ==
    IF day_key[2] = 1 THEN day_key[3] - 30 ELSE day_key[3] + 1

Keys == {user_key(g, u) : g \in Guilds, u \in Users}
DayKeys == {date_key(d) : d \in Days}

\* ------------------------------------------------------------- documents
ZeroUserDay == [messages |-> 0, reactions_given |-> 0, reactions_received |-> 0]

NoUserDoc ==
    [exists |-> FALSE, total_messages |-> 0, reactions_given |-> 0,
     reactions_received |-> 0, daily_stats |-> [k \in DayKeys |-> ZeroUserDay]]

ZeroServerDay == [messages |-> 0, reactions |-> 0, active_users |-> {}]

NoServerDoc ==
    [exists |-> FALSE, stats_channel_id |-> None, stats_message_id |-> None,
     daily_stats |-> [k \in DayKeys |-> ZeroServerDay]]

VARIABLES
    users,      \* the users collection: [Keys -> user document]
    servers,    \* the servers collection: [Guilds -> server document]
    today,      \* the day datetime.utcnow() falls on
    calls,      \* history: record_message calls completed per user key
    last,       \* history: the last completed write operation
    reply,      \* the value the last query returned
    nops,       \* history: number of operations run so far
    procs,      \* the operations in flight (one coroutine each)
    users0,     \* history: the users collection when the run began
    servers0,   \* history: the servers collection when the run began
    cache,      \* MessageAuthorCache._data: <<message_id, author_id>>, oldest first
    lru,        \* history: per message id, the author last put and when last used
    event,      \* history: the last event a listener handled, and how it ended
    cog         \* the StatsCommands cog's fields, its tasks and the stats channel

vars == <<users, servers, today, calls, last, reply, nops, procs, users0, servers0, cache, lru, event, cog>>

\* ---------------------------------------------- bot/services/aggregation.py
NoKey == <<>>

\* a dotted field path "daily_stats.<day>.<name>" is the tuple of its parts
daily_path(day, name) == <<"daily_stats", day, name>>

_parse_daily_field(daily_field) ==
    IF Len(daily_field) >= 3
    THEN <<daily_field[2], daily_field[3]>>
    ELSE <<NoKey, "">>

\* users.update_one(filter, {"$inc": {total_field: total_delta,
\* daily_field: daily_delta}, "$set": ..., "$setOnInsert": ...}, upsert):
\* the new value of the matched (or inserted) document
users_update_one(doc, total_field, total_delta, daily_field, daily_delta, upsert) ==
    IF ~doc.exists /\ ~upsert
    THEN doc
    ELSE LET day == daily_field[2]
             name == daily_field[3]
             inc1 == [doc EXCEPT !.exists = TRUE, ![total_field] = @ + total_delta]
         IN  [inc1 EXCEPT !.daily_stats[day][name] = @ + daily_delta]

\* servers.update_one(filter, {"$inc": {"daily_stats.<day>.<name>": delta},
\* "$addToSet": {"daily_stats.<day>.active_users": each of add}, ...}, upsert)
servers_update_one(doc, day, name, delta, add, upsert) ==
    IF ~doc.exists /\ ~upsert
    THEN doc
    ELSE LET inc1 == [doc EXCEPT !.exists = TRUE, !.daily_stats[day][name] = @ + delta]
         IN  [inc1 EXCEPT !.daily_stats[day].active_users = @ \cup add]

\* variant: total_messages set by $setOnInsert instead of $inc
message_user_write_insert_only(doc, day) ==
    users_update_one(doc, "total_messages", IF doc.exists THEN 0 ELSE 1,
                     daily_path(day, "messages"), 1, TRUE)

\* record_message, first write: the user document after lines 53-63
message_user_write(doc, day) ==
    users_update_one(doc, "total_messages", 1, daily_path(day, "messages"), 1, TRUE)

\* variant: the $addToSet of the poster is missing
message_server_write_no_addtoset(doc, day, user_id) ==
    servers_update_one(doc, day, "messages", 1, {}, TRUE)

\* variant: the server bucket is keyed by the first day, not the message's
message_server_write_first_day(doc, day, user_id) ==
    servers_update_one(doc, date_key(0), "messages", 1, {user_id}, TRUE)

\* record_message, second write: the server document after lines 65-72
message_server_write(doc, day, user_id) ==
    servers_update_one(doc, day, "messages", 1, {user_id}, TRUE)

\* variant: the decrement is a plain $inc, no read and no clamp
user_counter_write_unguarded(doc, existing, total_field, daily_field, delta) ==
    users_update_one(doc, total_field, delta, daily_field, delta, delta > 0)

\* variant: one clamp, taken from the day bucket, applied to total and bucket
user_counter_write_one_clamp(doc, existing, total_field, daily_field, delta) ==
    LET parsed == _parse_daily_field(daily_field)
        daily_value == IF existing.exists
                       THEN existing.daily_stats[parsed[1]][parsed[2]] ELSE 0
        safe_delta == IF daily_value + delta >= 0 THEN delta ELSE -daily_value
    IN  IF delta > 0
        THEN users_update_one(doc, total_field, delta, daily_field, delta, TRUE)
        ELSE IF ~existing.exists \/ safe_delta = 0 THEN doc
        ELSE users_update_one(doc, total_field, safe_delta, daily_field, safe_delta, FALSE)

\* variant: the update $set's the values read by find_one plus delta
user_counter_write_rmw(doc, existing, total_field, daily_field, delta) ==
    LET day == daily_field[2]
        name == daily_field[3]
        set1 == [doc EXCEPT !.exists = TRUE, ![total_field] = existing[total_field] + delta]
    IN  IF delta > 0
        THEN [set1 EXCEPT !.daily_stats[day][name] =
                              existing.daily_stats[day][name] + delta]
        ELSE user_counter_write_unguarded(doc, existing, total_field, daily_field, delta)

\* variant: the guard is evaluated on the document as it is when written
user_counter_write_atomic(doc, existing, total_field, daily_field, delta) ==
    user_counter_write_unguarded(doc, existing, total_field, daily_field,
        IF delta > 0 THEN delta
        ELSE IF doc[total_field] > 0 /\ doc.daily_stats[daily_field[2]][daily_field[3]] > 0
             THEN delta ELSE 0)

\* _update_user_counter after its find_one returned `existing`: the value
\* its update_one (if any) leaves in the document that now holds `doc`
\* variant: a decrement for a user without a document upserts an empty one
user_counter_write_upsert(doc, existing, total_field, daily_field, delta) ==
    LET parsed == _parse_daily_field(daily_field)
        daily_value == IF existing.exists
                       THEN existing.daily_stats[parsed[1]][parsed[2]]
                       ELSE 0
        current_total == existing[total_field]
        safe_total_delta ==
            IF current_total + delta >= 0 THEN delta ELSE -current_total
        safe_daily_delta ==
            IF daily_value + delta >= 0 THEN delta ELSE -daily_value
    IN  IF delta > 0
        THEN users_update_one(doc, total_field, delta, daily_field, delta, TRUE)
        ELSE users_update_one(doc, total_field, safe_total_delta,
                              daily_field, safe_daily_delta, TRUE)

user_counter_write(doc, existing, total_field, daily_field, delta) ==
    LET parsed == _parse_daily_field(daily_field)
        day_key == parsed[1]
        daily_field_name == parsed[2]
        daily_value ==
            IF day_key # NoKey /\ daily_field_name # "" /\ existing.exists
            THEN existing.daily_stats[day_key][daily_field_name]
            ELSE 0
        current_total == existing[total_field]
        safe_total_delta ==
            IF current_total + delta >= 0 THEN delta ELSE -current_total
        safe_daily_delta ==
            IF daily_value + delta >= 0 THEN delta ELSE -daily_value
    IN  IF delta > 0
        THEN users_update_one(doc, total_field, delta, daily_field, delta, TRUE)
        ELSE IF ~existing.exists THEN doc
        ELSE IF current_total <= 0 /\ daily_value <= 0 THEN doc
        ELSE IF safe_total_delta = 0 /\ safe_daily_delta = 0 THEN doc
        ELSE users_update_one(doc, total_field, safe_total_delta,
                              daily_field, safe_daily_delta, FALSE)

\* _update_server_reactions for delta > 0: one upserting $inc
server_reactions_inc(doc, day, delta) ==
    servers_update_one(doc, day, "reactions", delta, {}, TRUE)

\* variant: the server decrement is a plain $inc on an existing document
server_reactions_dec_unguarded(doc, existing, day, delta) ==
    servers_update_one(doc, day, "reactions", delta, {}, FALSE)

\* _update_server_reactions for delta <= 0 after its find_one returned
\* `existing`: the value its update_one (if any) leaves in `doc`
server_reactions_dec(doc, existing, day, delta) ==
    LET current == existing.daily_stats[day].reactions
        safe_delta == IF current + delta >= 0 THEN delta ELSE -current
    IN  IF ~existing.exists THEN doc
        ELSE IF current <= 0 THEN doc
        ELSE IF safe_delta = 0 THEN doc
        ELSE servers_update_one(doc, day, "reactions", safe_delta, {}, FALSE)

\* _update_user_counter run without interruption (read, then write)
_update_user_counter(us, guild_id, user_id, total_field, daily_field, delta) ==
    LET k == user_key(guild_id, user_id)
    IN  [us EXCEPT ![k] = user_counter_write(@, @, total_field, daily_field, delta)]

\* _update_server_reactions run without interruption
_update_server_reactions(ss, guild_id, day, delta) ==
    [ss EXCEPT ![guild_id] =
        IF delta > 0 THEN server_reactions_inc(@, day, delta)
                     ELSE server_reactions_dec(@, @, day, delta)]

\* the users collection after the two user-side updates of
\* _record_reaction_change (lines 92-110)
reaction_users(us, guild_id, reactor_id, message_author_id, delta, ts) ==
    LET day == date_key(ts)
        given == _update_user_counter(us, guild_id, reactor_id, "reactions_given",
                                      daily_path(day, "reactions_given"), delta)
    IN  IF message_author_id # None
        THEN _update_user_counter(given, guild_id, message_author_id,
                                  "reactions_received",
                                  daily_path(day, "reactions_received"), delta)
        ELSE given

\* ----------------------------------------------------------- history
NoLast == [op |-> "none", guild |-> None, user |-> None, author |-> None, day |-> 0,
           pre_given |-> 0, pre_received |-> 0, pre_exists |-> FALSE]

\* the dictionary get_user_summary returns for a user without a record
ZeroSummary ==
    [total_messages |-> 0, reactions_given |-> 0, reactions_received |-> 0,
     messages_7d |-> 0, messages_30d |-> 0, reactions_given_7d |-> 0]

NoReply == [op |-> "none", guild |-> None, user |-> None, days |-> 0, now |-> 0,
            limit |-> 0, messages |-> 0, reactions |-> 0, active_users |-> 0,
            top |-> <<>>, summary |-> ZeroSummary, daily |-> ZeroUserDay,
            message_id |-> None]

received_of(us, guild_id, author_id) ==
    IF author_id = None THEN 0
    ELSE us[user_key(guild_id, author_id)].reactions_received

\* appliedDelta = max(delta, -currentValue) for delta = -1, and 0 when the
\* values read make the decrement return early (history)
Clamped(exists, total, daily, current) ==
    IF ~exists \/ (total <= 0 /\ daily <= 0) THEN 0
    ELSE IF -1 >= -current THEN -1 ELSE -current

\* the deltas the values a coroutine read allow it: total, day bucket, server
NoSeen == [total |-> 0, daily |-> 0, server |-> 0]

\* a coroutine: where it stands, its arguments, what its last find_one read,
\* and for a refresh the id of the message it has sent
NoProc == [pc |-> "idle", op |-> "none", user |-> None, author |-> None, day |-> 0,
           existing |-> NoUserDoc, existing_server |-> NoServerDoc,
           seen |-> NoSeen, message |-> None]

\* the message ids events refer to: one more than the cache holds
MsgIds == 1..(MaxSize + 1)

\* per key: the author held, the time of its last use and of its entry
NoLru == [m \in MsgIds |-> [author |-> None, used |-> 0, since |-> 0]]

\* history: how the last refresh_stats_message went: the pointer it found, how
\* the fetch of the stored message ended, and the message it edited or sent
NoRefresh == [outcome |-> "none", pointer |-> None, fetch |-> "none", message |-> None]

\* the three refresh schedules of the cog
Schedules == {"daily", "weekly", "monthly"}

\* a schedule's loop: where it stands ("none": no task yet), the refreshes it
\* has awaited and whether the last of them raised
NoLoop == [pc |-> "none", rounds |-> 0, failed |-> FALSE]

\* the cog after __init__, the stats channel holding no message of the bot:
\* daily_refresh is started, ready and closed are the bot's is_ready() and
\* is_closed(), unloaded says that cog_unload has run;
\* synced and schedules_started are _synced and _schedules_started,
\* weekly_tasks and monthly_tasks the numbers of tasks created for
\* _weekly_refresh and _monthly_refresh; channel is the set of the bot's messages in the stats channel, sent the
\* number of messages the bot has sent there; history: runs counts the
\* refreshes, last_message_id is the id last passed to set_stats_message_id
NoCog == [synced |-> FALSE, schedules_started |-> FALSE,
          weekly_tasks |-> 0, monthly_tasks |-> 0,
          loops |-> [l \in Schedules |-> IF l = "daily" THEN [NoLoop EXCEPT !.pc = "created"]
                                                        ELSE NoLoop],
          ready |-> FALSE, closed |-> FALSE, unloaded |-> FALSE,
          last_message_id |-> None, channel |-> {}, sent |-> 0, runs |-> 0,
          refresh |-> NoRefresh]

NoEvent == [op |-> "none", guild |-> None, user |-> None, bot |-> FALSE,
            message_id |-> None, author |-> None, fetch |-> "none",
            outcome |-> "none", failures |-> 0]

Init ==
    /\ users = [k \in Keys |-> NoUserDoc]
    /\ servers = [g \in Guilds |-> NoServerDoc]
    /\ today = 0
    /\ calls = [k \in Keys |-> 0]
    /\ last = NoLast
    /\ reply = NoReply
    /\ nops = 0
    /\ procs = [p \in 1..MaxProcs |-> NoProc]
    /\ users0 = users
    /\ servers0 = servers
    /\ cache = <<>>
    /\ lru = NoLru
    /\ event = NoEvent
    /\ cog = NoCog

\* ------------------------------------------------- operations, one at a time
\* the clock passes midnight
Tick ==
    /\ reply = NoReply
    /\ today + 1 \in Days
    /\ today' = today + 1
    /\ UNCHANGED <<users, servers, calls, last, reply, nops, procs, users0, servers0, cache, lru, event, cog>>

\* record_message(guild_id, user_id, ts), ts = message.created_at, the day the
\* message is posted
record_message(guild_id, user_id, ts) ==
    LET day == date_key(ts)
        k == user_key(guild_id, user_id)
    IN  /\ reply = NoReply
        /\ nops < MaxOps
        /\ users' = [users EXCEPT ![k] = message_user_write(@, day)]
        /\ servers' = [servers EXCEPT ![guild_id] = message_server_write(@, day, user_id)]
        /\ calls' = [calls EXCEPT ![k] = @ + 1]
        /\ last' = [NoLast EXCEPT !.op = "message", !.guild = guild_id,
                                   !.user = user_id, !.day = ts]
        /\ reply' = NoReply
        /\ nops' = nops + 1
        /\ UNCHANGED <<today, procs, users0, servers0, cache, lru, event, cog>>

\* record_reaction_add(guild_id, reactor_id, message_author_id, ts), ts = utcnow()
record_reaction_add(guild_id, reactor_id, message_author_id, ts) ==
    /\ reply = NoReply
    /\ nops < MaxOps
    /\ users' = reaction_users(users, guild_id, reactor_id, message_author_id, 1, ts)
    /\ servers' = _update_server_reactions(servers, guild_id, date_key(ts), 1)
    /\ last' = [op |-> "add", guild |-> guild_id, user |-> reactor_id,
                author |-> message_author_id, day |-> ts,
                pre_given |-> users[user_key(guild_id, reactor_id)].reactions_given,
                pre_received |-> received_of(users, guild_id, message_author_id),
                pre_exists |-> users[user_key(guild_id, reactor_id)].exists]
    /\ reply' = NoReply
    /\ nops' = nops + 1
    /\ UNCHANGED <<today, calls, procs, users0, servers0, cache, lru, event, cog>>

\* record_reaction_remove(guild_id, reactor_id, message_author_id, ts), ts = utcnow()
record_reaction_remove(guild_id, reactor_id, message_author_id, ts) ==
    /\ reply = NoReply
    /\ nops < MaxOps
    /\ users' = reaction_users(users, guild_id, reactor_id, message_author_id, -1, ts)
    /\ servers' = _update_server_reactions(servers, guild_id, date_key(ts), -1)
    /\ last' = IF last.op = "add" /\ last.guild = guild_id /\ last.user = reactor_id
                  /\ last.author = message_author_id
               THEN [last EXCEPT !.op = "add_remove", !.day = ts]
               ELSE [op |-> "remove", guild |-> guild_id, user |-> reactor_id,
                     author |-> message_author_id, day |-> ts,
                     pre_given |-> users[user_key(guild_id, reactor_id)].reactions_given,
                     pre_received |-> received_of(users, guild_id, message_author_id),
                     pre_exists |-> users[user_key(guild_id, reactor_id)].exists]
    /\ reply' = NoReply
    /\ nops' = nops + 1
    /\ UNCHANGED <<today, calls, procs, users0, servers0, cache, lru, event, cog>>

Message == \E g \in Guilds, u \in Users : record_message(g, u, today)

ReactionAdd ==
    \E g \in Guilds, r \in Users, a \in Users \cup {None} :
        record_reaction_add(g, r, a, today)

ReactionRemove ==
    \E g \in Guilds, r \in Users, a \in Users \cup {None} :
        record_reaction_remove(g, r, a, today)

\* ------------------------------------------------------------ read operations
Max(a, b) == IF a >= b THEN a ELSE b

\* variant: the cutoff day itself is left out
_day_within_window_strict(day_key, cutoff_date) == strptime(day_key) > cutoff_date

\* variant: a key that does not parse is taken to be in the window
_day_within_window_unparsed(day_key, cutoff_date) ==
    IF ValueError(day_key) THEN TRUE ELSE strptime(day_key) >= cutoff_date

\* _day_within_window: a key that strptime rejects is logged and skipped
_day_within_window(day_key, cutoff_date) ==
    IF ValueError(day_key) THEN FALSE ELSE strptime(day_key) >= cutoff_date

\* variant: the window reaches one day further back
cutoff_of_off_by_one(days, now) == now - Max(days, 1)

\* variant: the window length is used as given, without max(days, 1)
cutoff_of_unclamped(days, now) == now - (days - 1)

\* window_days = max(days, 1)
\* cutoff_date = (now - timedelta(days=window_days - 1)).date()
cutoff_of(days, now) == now - (Max(days, 1) - 1)

\* the loop of get_server_windows (lines 190-195) over the keys still to visit
RECURSIVE server_window_loop(_, _, _, _)
server_window_loop(daily_stats, keys, cutoff_date, acc) ==
    IF keys = {} THEN acc
    ELSE LET day_key == CHOOSE k \in keys : TRUE
             day_stats == daily_stats[day_key]
             rest == keys \ {day_key}
         IN  IF ~_day_within_window(day_key, cutoff_date)
             THEN server_window_loop(daily_stats, rest, cutoff_date, acc)
             ELSE server_window_loop(daily_stats, rest, cutoff_date,
                    [messages |-> acc.messages + day_stats.messages,
                     reactions |-> acc.reactions + day_stats.reactions,
                     active_users |-> acc.active_users \cup day_stats.active_users])

\* variant: active_users adds up the sizes of the in-window days' sets
RECURSIVE active_sizes(_, _, _)
active_sizes(daily_stats, keys, cutoff_date) ==
    IF keys = {} THEN 0
    ELSE LET day_key == CHOOSE k \in keys : TRUE
             rest == active_sizes(daily_stats, keys \ {day_key}, cutoff_date)
         IN  IF _day_within_window(day_key, cutoff_date)
             THEN rest + Cardinality(daily_stats[day_key].active_users)
             ELSE rest

get_server_windows_sum_sizes(ss, guild_id, days, now) ==
    LET server_doc == ss[guild_id]
        zero == [messages |-> 0, reactions |-> 0, active_users |-> {}]
        acc == server_window_loop(server_doc.daily_stats, DOMAIN server_doc.daily_stats,
                                  cutoff_of(days, now), zero)
    IN  [messages |-> acc.messages, reactions |-> acc.reactions,
         active_users |-> active_sizes(server_doc.daily_stats,
                                       DOMAIN server_doc.daily_stats, cutoff_of(days, now))]

get_server_windows(ss, guild_id, days, now) ==
    LET cutoff_date == cutoff_of(days, now)
        server_doc == ss[guild_id]
        zero == [messages |-> 0, reactions |-> 0, active_users |-> {}]
        acc == IF server_doc.exists
               THEN server_window_loop(server_doc.daily_stats,
                                       DOMAIN server_doc.daily_stats, cutoff_date, zero)
               ELSE zero
    IN  [messages |-> acc.messages, reactions |-> acc.reactions,
         active_users |-> Cardinality(acc.active_users)]

\* the inner loop of get_top_users_by_messages (lines 209-212)
RECURSIVE user_window_messages(_, _, _)
user_window_messages(daily_stats, keys, cutoff_date) ==
    IF keys = {} THEN 0
    ELSE LET day_key == CHOOSE k \in keys : TRUE
             rest == user_window_messages(daily_stats, keys \ {day_key}, cutoff_date)
         IN  IF ~_day_within_window(day_key, cutoff_date)
             THEN rest
             ELSE rest + daily_stats[day_key].messages

\* list.sort(key=item[1], reverse=True): stable, so an item goes after every
\* item already placed whose count is >= its own
RECURSIVE sort_insert(_, _)
sort_insert(sorted, item) ==
    IF sorted = <<>> THEN <<item>>
    ELSE IF Head(sorted)[2] >= item[2]
         THEN <<Head(sorted)>> \o sort_insert(Tail(sorted), item)
         ELSE <<item>> \o sorted

RECURSIVE sort_desc(_)
sort_desc(items) ==
    IF items = <<>> THEN <<>>
    ELSE sort_insert(sort_desc(SubSeq(items, 1, Len(items) - 1)), items[Len(items)])

\* variant: the `if total > 0` filter is missing
RECURSIVE top_scan_no_filter(_, _, _)
top_scan_no_filter(us, cursor, cutoff_date) ==
    IF cursor = <<>> THEN <<>>
    ELSE LET doc == us[Head(cursor)]
             total == user_window_messages(doc.daily_stats, DOMAIN doc.daily_stats,
                                           cutoff_date)
         IN  <<<<Head(cursor)[2], total>>>> \o top_scan_no_filter(us, Tail(cursor), cutoff_date)

\* the outer loop (lines 206-214) over the documents the cursor yields
RECURSIVE top_scan(_, _, _)
top_scan(us, cursor, cutoff_date) ==
    IF cursor = <<>> THEN <<>>
    ELSE LET doc == us[Head(cursor)]
             total == user_window_messages(doc.daily_stats, DOMAIN doc.daily_stats,
                                           cutoff_date)
             rest == top_scan(us, Tail(cursor), cutoff_date)
         IN  IF total > 0 THEN <<<<Head(cursor)[2], total>>>> \o rest ELSE rest

\* top[:limit] for limit >= 0
top_slice(top, limit) ==
    SubSeq(top, 1, IF limit < Len(top) THEN limit ELSE Len(top))

\* variant: the list is cut to `limit` before it is sorted
get_top_users_by_messages_slice_first(us, cursor, days, limit, now) ==
    sort_desc(top_slice(top_scan(us, cursor, cutoff_of(days, now)), limit))

\* get_top_users_by_messages; cursor is the order in which users.find yields
\* the guild's documents (Mongo leaves it unspecified)
get_top_users_by_messages(us, cursor, days, limit, now) ==
    top_slice(sort_desc(top_scan(us, cursor, cutoff_of(days, now))), limit)

\* every order in which a find over the guild's existing documents can yield them
Cursors(us, guild_id) ==
    LET found == {k \in Keys : k[1] = guild_id /\ us[k].exists}
        n == Cardinality(found)
    IN  {c \in [1..n -> found] : \A i, j \in 1..n : c[i] = c[j] => i = j}

\* the window lengths of the user summary
days_7d == 7
days_30d == 30

\* the loop of _sum_daily (lines 246-251) over the keys still to visit
RECURSIVE sum_daily_loop(_, _, _, _)
sum_daily_loop(daily_stats, keys, cutoff_date, totals) ==
    IF keys = {} THEN totals
    ELSE LET day_key == CHOOSE k \in keys : TRUE
             values == daily_stats[day_key]
             rest == keys \ {day_key}
         IN  IF ~_day_within_window(day_key, cutoff_date)
             THEN sum_daily_loop(daily_stats, rest, cutoff_date, totals)
             ELSE sum_daily_loop(daily_stats, rest, cutoff_date,
                    [messages |-> totals.messages + values.messages,
                     reactions_given |-> totals.reactions_given + values.reactions_given,
                     reactions_received |->
                         totals.reactions_received + values.reactions_received])

_sum_daily(daily_stats, days, now) ==
    sum_daily_loop(daily_stats, DOMAIN daily_stats, cutoff_of(days, now), ZeroUserDay)

get_user_summary(us, guild_id, user_id, now) ==
    LET doc == us[user_key(guild_id, user_id)]
        stats_7d == _sum_daily(doc.daily_stats, days_7d, now)
        stats_30d == _sum_daily(doc.daily_stats, days_30d, now)
    IN  IF ~doc.exists THEN ZeroSummary
        ELSE [total_messages |-> doc.total_messages,
              reactions_given |-> doc.reactions_given,
              reactions_received |-> doc.reactions_received,
              messages_7d |-> stats_7d.messages,
              messages_30d |-> stats_30d.messages,
              reactions_given_7d |-> stats_7d.reactions_given]

\* the times a summary is asked for: the day the clock shows, or the later
\* day on which the 7-day or the 30-day window begins with that day
SummaryNows == {today, today + days_7d - 1, today + days_30d - 1}

\* ------------------------------------------------------------------ queries
\* a query runs when the caller holds no unread reply
ServerWindows ==
    \E g \in Guilds, days \in 1..MaxWindow, now \in Days :
        LET r == get_server_windows(servers, g, days, now)
        IN  /\ reply = NoReply
            /\ reply' = [NoReply EXCEPT !.op = "server_windows", !.guild = g,
                            !.days = days,
                            !.now = now, !.messages = r.messages,
                            !.reactions = r.reactions, !.active_users = r.active_users]
            /\ UNCHANGED <<users, servers, today, calls, last, nops, procs, users0, servers0, cache, lru, event, cog>>

TopUsers ==
    \E g \in Guilds, days \in 1..MaxWindow, now \in Days, limit \in 0..MaxLimit :
      \E cursor \in Cursors(users, g) :
        /\ reply = NoReply
        /\ reply' = [NoReply EXCEPT !.op = "top_users", !.guild = g, !.days = days,
                        !.now = now, !.limit = limit,
                        !.top = get_top_users_by_messages(users, cursor, days, limit, now)]
        /\ UNCHANGED <<users, servers, today, calls, last, nops, procs, users0, servers0, cache, lru, event, cog>>

\* variant: the lookup is an upsert and leaves an empty record behind
UserSummary_upsert ==
    \E g \in Guilds, u \in Users, now \in SummaryNows :
        /\ reply = NoReply
        /\ reply' = [NoReply EXCEPT !.op = "user_summary", !.guild = g, !.user = u,
                        !.now = now, !.summary = get_user_summary(users, g, u, now)]
        /\ users' = [users EXCEPT ![user_key(g, u)].exists = TRUE]
        /\ UNCHANGED <<servers, today, calls, last, nops, procs, users0, servers0, cache, lru, event, cog>>

UserSummary ==
    \E g \in Guilds, u \in Users, now \in SummaryNows :
        /\ reply = NoReply
        /\ reply' = [NoReply EXCEPT !.op = "user_summary", !.guild = g, !.user = u,
                        !.now = now, !.summary = get_user_summary(users, g, u, now)]
        /\ UNCHANGED <<users, servers, today, calls, last, nops, procs, users0, servers0, cache, lru, event, cog>>

\* the caller has read the reply
Return ==
    /\ reply # NoReply
    /\ reply' = NoReply
    /\ UNCHANGED <<users, servers, today, calls, last, nops, procs, users0, servers0, cache, lru, event, cog>>

Next ==
    \/ Tick \/ Message \/ ReactionAdd \/ ReactionRemove
    \/ ServerWindows \/ Return

Spec == Init /\ [][Next]_vars

\* the ranking query, which reads message buckets only, on the stores that
\* message events build
NextTop == Tick \/ Message \/ TopUsers \/ Return

SpecTop == Init /\ [][NextTop]_vars

\* the user summary on the stores that message and reaction events build
NextSummary ==
    \/ Tick \/ Message \/ ReactionAdd \/ ReactionRemove
    \/ UserSummary \/ Return

SpecSummary == Init /\ [][NextSummary]_vars

\* the three windowed queries on the stores that message events build
NextWindows == Tick \/ Message \/ ServerWindows \/ TopUsers \/ UserSummary \/ Return

SpecWindows == Init /\ [][NextWindows]_vars

\* the window lengths a caller can pass: zero and negative ones too
AnyDays == (0 - MaxWindow)..MaxWindow

\* get_server_windows called with any window length
ServerWindowsAnyDays ==
    \E g \in Guilds, days \in AnyDays, now \in Days :
        LET r == get_server_windows(servers, g, days, now)
        IN  /\ reply = NoReply
            /\ reply' = [NoReply EXCEPT !.op = "server_windows", !.guild = g,
                            !.days = days,
                            !.now = now, !.messages = r.messages,
                            !.reactions = r.reactions, !.active_users = r.active_users]
            /\ UNCHANGED <<users, servers, today, calls, last, nops, procs, users0, servers0, cache, lru, event, cog>>

\* get_top_users_by_messages called with any window length
TopUsersAnyDays ==
    \E g \in Guilds, days \in AnyDays, now \in Days, limit \in 0..MaxLimit :
      \E cursor \in Cursors(users, g) :
        /\ reply = NoReply
        /\ reply' = [NoReply EXCEPT !.op = "top_users", !.guild = g, !.days = days,
                        !.now = now, !.limit = limit,
                        !.top = get_top_users_by_messages(users, cursor, days, limit, now)]
        /\ UNCHANGED <<users, servers, today, calls, last, nops, procs, users0, servers0, cache, lru, event, cog>>

\* _sum_daily called on a user's day buckets with any window length
SumDaily ==
    \E g \in Guilds, u \in Users, days \in AnyDays, now \in Days :
        /\ reply = NoReply
        /\ reply' = [NoReply EXCEPT !.op = "sum_daily", !.guild = g, !.user = u,
                        !.days = days, !.now = now,
                        !.daily = _sum_daily(users[user_key(g, u)].daily_stats, days, now)]
        /\ UNCHANGED <<users, servers, today, calls, last, nops, procs, users0, servers0, cache, lru, event, cog>>

\* the three windowed sums for every window length, on the stores that message
\* events build
NextDays ==
    \/ Tick \/ Message
    \/ ServerWindowsAnyDays \/ TopUsersAnyDays \/ SumDaily \/ Return

SpecDays == Init /\ [][NextDays]_vars

\* ------------------------------------ operations in flight, one await at a time
\* Every await of a Motor call lets another coroutine run; each update_one and
\* find_one is atomic in Mongo.  All operations of a burst carry today's date.
Procs == 1..MaxProcs

\* the guild the burst of events comes from
TheGuild == CHOOSE g \in Guilds : TRUE

\* the user whose messages and reactions make the burst, so that every
\* operation in flight writes the same user key and the same server key
BurstUser == CHOOSE u \in Users : TRUE

delta_of(op) == IF op = "add" THEN 1 ELSE -1

\* the event loop starts the handler of the next event
StartMessage(p) ==
    \E u \in {BurstUser} :
        /\ procs[p].pc = "idle"
        /\ IF p = 1 THEN TRUE ELSE procs[p - 1].pc # "idle"
        /\ procs' = [procs EXCEPT ![p] = [NoProc EXCEPT !.pc = "msg_user", !.op = "message",
                                            !.user = u, !.day = today]]
        /\ UNCHANGED <<users, servers, today, calls, last, reply, nops, users0, servers0, cache, lru, event, cog>>

StartReaction(p) ==
    \E op \in {"add", "remove"}, r \in {BurstUser}, a \in Users \cup {None} :
        /\ procs[p].pc = "idle"
        /\ IF p = 1 THEN TRUE ELSE procs[p - 1].pc # "idle"
        /\ procs' = [procs EXCEPT ![p] = [NoProc EXCEPT !.pc = "given_find", !.op = op,
                                            !.user = r, !.author = a, !.day = today]]
        /\ UNCHANGED <<users, servers, today, calls, last, reply, nops, users0, servers0, cache, lru, event, cog>>

\* record_message line 63
MsgUser(p) ==
    LET me == procs[p]
        k == user_key(TheGuild, me.user)
    IN  /\ me.pc = "msg_user"
        /\ users' = [users EXCEPT ![k] = message_user_write(@, date_key(me.day))]
        /\ procs' = [procs EXCEPT ![p].pc = "msg_server"]
        /\ UNCHANGED <<servers, today, calls, last, reply, nops, users0, servers0, cache, lru, event, cog>>

\* record_message line 72
MsgServer(p) ==
    LET me == procs[p]
    IN  /\ me.pc = "msg_server"
        /\ servers' = [servers EXCEPT ![TheGuild] = message_server_write(@, date_key(me.day), me.user)]
        /\ calls' = [calls EXCEPT ![user_key(TheGuild, me.user)] = @ + 1]
        /\ procs' = [procs EXCEPT ![p].pc = "done"]
        /\ UNCHANGED <<users, today, last, reply, nops, users0, servers0, cache, lru, event, cog>>

\* _update_user_counter line 127, for the reactor
GivenFind(p) ==
    LET me == procs[p]
    IN  /\ me.pc = "given_find"
        /\ procs' = [procs EXCEPT ![p].pc = "given_write",
                        ![p].existing = users[user_key(TheGuild, me.user)],
                        ![p].seen =
                            LET doc == users[user_key(TheGuild, me.user)]
                                total == doc.reactions_given
                                daily == doc.daily_stats[date_key(me.day)].reactions_given
                            IN  IF me.op = "add" THEN [@ EXCEPT !.total = 1, !.daily = 1]
                                ELSE [@ EXCEPT
                                        !.total = Clamped(doc.exists, total, daily, total),
                                        !.daily = Clamped(doc.exists, total, daily, daily)]]
        /\ UNCHANGED <<users, servers, today, calls, last, reply, nops, users0, servers0, cache, lru, event, cog>>

\* _update_user_counter lines 132-154, for the reactor
GivenWrite(p) ==
    LET me == procs[p]
        k == user_key(TheGuild, me.user)
    IN  /\ me.pc = "given_write"
        /\ users' = [users EXCEPT ![k] =
                        user_counter_write(@, me.existing, "reactions_given",
                            daily_path(date_key(me.day), "reactions_given"),
                            delta_of(me.op))]
        /\ procs' = [procs EXCEPT ![p].existing = NoUserDoc,
                        ![p].pc = IF me.author # None THEN "recv_find" ELSE "server"]
        /\ UNCHANGED <<servers, today, calls, last, reply, nops, users0, servers0, cache, lru, event, cog>>

\* _update_user_counter line 127, for the message author
RecvFind(p) ==
    LET me == procs[p]
    IN  /\ me.pc = "recv_find"
        /\ procs' = [procs EXCEPT ![p].pc = "recv_write",
                                  ![p].existing = users[user_key(TheGuild, me.author)]]
        /\ UNCHANGED <<users, servers, today, calls, last, reply, nops, users0, servers0, cache, lru, event, cog>>

\* _update_user_counter lines 132-154, for the message author
RecvWrite(p) ==
    LET me == procs[p]
        k == user_key(TheGuild, me.author)
    IN  /\ me.pc = "recv_write"
        /\ users' = [users EXCEPT ![k] =
                        user_counter_write(@, me.existing, "reactions_received",
                            daily_path(date_key(me.day), "reactions_received"),
                            delta_of(me.op))]
        /\ procs' = [procs EXCEPT ![p].existing = NoUserDoc, ![p].pc = "server"]
        /\ UNCHANGED <<servers, today, calls, last, reply, nops, users0, servers0, cache, lru, event, cog>>

\* _update_server_reactions lines 164-166
ServerInc(p) ==
    LET me == procs[p]
    IN  /\ me.pc = "server"
        /\ me.op = "add"
        /\ servers' = [servers EXCEPT ![TheGuild] = server_reactions_inc(@, date_key(me.day), 1)]
        /\ procs' = [procs EXCEPT ![p].pc = "done", ![p].seen.server = 1]
        /\ UNCHANGED <<users, today, calls, last, reply, nops, users0, servers0, cache, lru, event, cog>>

\* _update_server_reactions line 168
ServerFind(p) ==
    LET me == procs[p]
    IN  /\ me.pc = "server"
        /\ me.op = "remove"
        /\ procs' = [procs EXCEPT ![p].pc = "server_write",
                        ![p].existing_server = servers[TheGuild],
                        ![p].seen.server =
                            LET doc == servers[TheGuild]
                                current == doc.daily_stats[date_key(me.day)].reactions
                            IN  Clamped(doc.exists, current, current, current)]
        /\ UNCHANGED <<users, servers, today, calls, last, reply, nops, users0, servers0, cache, lru, event, cog>>

\* _update_server_reactions lines 169-178
ServerWrite(p) ==
    LET me == procs[p]
    IN  /\ me.pc = "server_write"
        /\ servers' = [servers EXCEPT ![TheGuild] =
                          server_reactions_dec(@, me.existing_server, date_key(me.day), -1)]
        /\ procs' = [procs EXCEPT ![p].existing_server = NoServerDoc, ![p].pc = "done"]
        /\ UNCHANGED <<users, today, calls, last, reply, nops, users0, servers0, cache, lru, event, cog>>

\* A burst starts on the store that up to MaxPrior earlier record_reaction_add
\* calls of the burst's user (message author unresolved) have left.
RECURSIVE prior_users(_)
prior_users(n) ==
    IF n = 0 THEN [k \in Keys |-> NoUserDoc]
    ELSE reaction_users(prior_users(n - 1), TheGuild, BurstUser, None, 1, 0)

RECURSIVE prior_servers(_)
prior_servers(n) ==
    IF n = 0 THEN [g \in Guilds |-> NoServerDoc]
    ELSE _update_server_reactions(prior_servers(n - 1), TheGuild, date_key(0), 1)

InitConc ==
    \E n \in 0..MaxPrior :
        /\ users = prior_users(n)
        /\ servers = prior_servers(n)
        /\ today = 0
        /\ calls = [k \in Keys |-> 0]
        /\ last = NoLast
        /\ reply = NoReply
        /\ nops = 0
        /\ procs = [p \in Procs |-> NoProc]
        /\ users0 = users
        /\ servers0 = servers
        /\ cache = <<>>
        /\ lru = NoLru
        /\ event = NoEvent
        /\ cog = NoCog

\* ---- the ranking on a store that already holds messages
\* the store that n earlier record_message calls for the burst's user, on day
\* 0, have left
RECURSIVE posted_users(_)
posted_users(n) ==
    IF n = 0 THEN [k \in Keys |-> NoUserDoc]
    ELSE [posted_users(n - 1) EXCEPT ![user_key(TheGuild, BurstUser)] =
              message_user_write(@, date_key(0))]

RECURSIVE posted_servers(_)
posted_servers(n) ==
    IF n = 0 THEN [g \in Guilds |-> NoServerDoc]
    ELSE [posted_servers(n - 1) EXCEPT ![TheGuild] =
              message_server_write(@, date_key(0), BurstUser)]

InitRank ==
    \E n \in 0..MaxPrior :
        /\ users = posted_users(n)
        /\ servers = posted_servers(n)
        /\ today = 0
        /\ calls = [k \in Keys |-> IF k = user_key(TheGuild, BurstUser) THEN n ELSE 0]
        /\ last = NoLast
        /\ reply = NoReply
        /\ nops = 0
        /\ procs = [p \in Procs |-> NoProc]
        /\ users0 = users
        /\ servers0 = servers
        /\ cache = <<>>
        /\ lru = NoLru
        /\ event = NoEvent
        /\ cog = NoCog

SpecRank == InitRank /\ [][NextTop]_vars

\* ---- the windowed queries on a store that holds a key strptime rejects
\* day keys, written into the store from outside the service, that name no
\* day of the calendar
MalformedKeys == {<<2024, 2, 30>>, <<2024, 13, 1>>}

\* the burst user's document with n messages under the key k
malformed_users(k, n) ==
    [j \in Keys |->
        IF j # user_key(TheGuild, BurstUser) THEN NoUserDoc
        ELSE [NoUserDoc EXCEPT
                !.exists = TRUE,
                !.total_messages = n,
                !.daily_stats = [d \in DayKeys \cup {k} |->
                                    IF d = k THEN [ZeroUserDay EXCEPT !.messages = n]
                                    ELSE ZeroUserDay]]]

\* the guild's document with n messages and reactions of the burst user
\* under the key k
malformed_servers(k, n) ==
    [g \in Guilds |->
        IF g # TheGuild THEN NoServerDoc
        ELSE [NoServerDoc EXCEPT
                !.exists = TRUE,
                !.daily_stats = [d \in DayKeys \cup {k} |->
                                    IF d = k
                                    THEN [messages |-> n, reactions |-> n,
                                          active_users |-> {BurstUser}]
                                    ELSE ZeroServerDay]]]

InitMalformed ==
    \E k \in MalformedKeys, n \in 1..MaxPrior :
        /\ users = malformed_users(k, n)
        /\ servers = malformed_servers(k, n)
        /\ today = 0
        /\ calls = [j \in Keys |-> 0]
        /\ last = NoLast
        /\ reply = NoReply
        /\ nops = 0
        /\ procs = [p \in Procs |-> NoProc]
        /\ users0 = users
        /\ servers0 = servers
        /\ cache = <<>>
        /\ lru = NoLru
        /\ event = NoEvent
        /\ cog = NoCog

SpecMalformed == InitMalformed /\ [][NextWindows]_vars

\* ---- record_message stopped between its two writes
\* the event loop starts on_message for a message of any user
StartMessageBy(p) ==
    \E u \in Users :
        /\ procs[p].pc = "idle"
        /\ IF p = 1 THEN TRUE ELSE procs[p - 1].pc # "idle"
        /\ procs' = [procs EXCEPT ![p] = [NoProc EXCEPT !.pc = "msg_user", !.op = "message",
                                            !.user = u, !.day = today]]
        /\ UNCHANGED <<users, servers, today, calls, last, reply, nops, users0, servers0, cache, lru, event, cog>>

\* the update_one the coroutine awaits raises, or the process dies there: the
\* write is not made and the coroutine never resumes
MsgFail(p) ==
    /\ procs[p].pc \in {"msg_user", "msg_server"}
    /\ procs' = [procs EXCEPT ![p].pc = IF procs[p].pc = "msg_user"
                                        THEN "failed_first" ELSE "failed_between"]
    /\ UNCHANGED <<users, servers, today, calls, last, reply, nops, users0, servers0, cache, lru, event, cog>>

NextCrash ==
    \/ Tick
    \/ \E p \in Procs : StartMessageBy(p) \/ MsgUser(p) \/ MsgServer(p) \/ MsgFail(p)

SpecCrash == Init /\ [][NextCrash]_vars

NextConc ==
    \E p \in Procs :
        \/ StartMessage(p) \/ StartReaction(p)
        \/ MsgUser(p) \/ MsgServer(p)
        \/ GivenFind(p) \/ GivenWrite(p) \/ RecvFind(p) \/ RecvWrite(p)
        \/ ServerInc(p) \/ ServerFind(p) \/ ServerWrite(p)

SpecConc == InitConc /\ [][NextConc]_vars

\* ---- the guarded decrement as a function of the document it finds
\* the counter pairs _record_reaction_change passes to _update_user_counter
CounterFields == {"reactions_given", "reactions_received"}

\* a user document holding the given total and day value of one counter
doc_with(total_field, total, day, daily) ==
    [[NoUserDoc EXCEPT !.exists = TRUE, ![total_field] = total]
        EXCEPT !.daily_stats[day][total_field] = daily]

\* the store holds one user's document, with any total and any day value a
\* run can leave (values below zero and totals behind the day value included)
InitDec ==
    \E u \in Users, f \in CounterFields, total \in -1..MaxCount, daily \in -1..MaxCount :
        /\ users = [k \in Keys |-> IF k = user_key(TheGuild, u)
                                   THEN doc_with(f, total, date_key(0), daily)
                                   ELSE NoUserDoc]
        /\ servers = [g \in Guilds |-> NoServerDoc]
        /\ today = 0
        /\ calls = [k \in Keys |-> 0]
        /\ last = [NoLast EXCEPT !.op = f, !.guild = TheGuild, !.user = u]
        /\ reply = NoReply
        /\ nops = 0
        /\ procs = [p \in Procs |-> NoProc]
        /\ users0 = users
        /\ servers0 = servers
        /\ cache = <<>>
        /\ lru = NoLru
        /\ event = NoEvent
        /\ cog = NoCog

\* _update_user_counter(guild_id, user_id, total_field, daily_field, -1, ts)
Decrement ==
    /\ nops = 0
    /\ users' = _update_user_counter(users, last.guild, last.user, last.op,
                                     daily_path(date_key(today), last.op), -1)
    /\ nops' = 1
    /\ UNCHANGED <<servers, today, calls, last, reply, procs, users0, servers0, cache, lru, event, cog>>

NextDec == Decrement

SpecDec == InitDec /\ [][NextDec]_vars

\* ----------------------------------- bot/cogs/stats_collector.py: the cache
\* MessageAuthorCache(max_size)
max_size == MaxSize

\* the keys of the OrderedDict
cache_keys(data) == {data[i][1] : i \in 1..Len(data)}

\* OrderedDict.get(message_id): the value, None for a missing key
cache_lookup(data, message_id) ==
    IF message_id \in cache_keys(data)
    THEN data[CHOOSE i \in 1..Len(data) : data[i][1] = message_id][2]
    ELSE None

\* the entries of data other than the one of message_id, in order
RECURSIVE without(_, _)
without(data, message_id) ==
    IF data = <<>> THEN <<>>
    ELSE IF Head(data)[1] = message_id THEN without(Tail(data), message_id)
    ELSE <<Head(data)>> \o without(Tail(data), message_id)

\* OrderedDict.move_to_end(message_id), the key being present
move_to_end(data, message_id) ==
    without(data, message_id) \o <<<<message_id, cache_lookup(data, message_id)>>>>

\* data[message_id] = author_id: a present key keeps its place, a new one goes last
setitem(data, message_id, author_id) ==
    IF message_id \in cache_keys(data)
    THEN [i \in 1..Len(data) |->
            IF data[i][1] = message_id THEN <<message_id, author_id>> ELSE data[i]]
    ELSE Append(data, <<message_id, author_id>>)

\* OrderedDict.popitem(last=False)
popitem_first(data) == Tail(data)

\* variant: a re-put leaves the key where it was
put_no_move(data, message_id, author_id) ==
    LET set == setitem(data, message_id, author_id)
    IN  IF Len(set) > max_size THEN popitem_first(set) ELSE set

\* variant: the overflow test is off by one
put_late_evict(data, message_id, author_id) ==
    LET moved == IF message_id \in cache_keys(data)
                 THEN move_to_end(data, message_id) ELSE data
        set == setitem(moved, message_id, author_id)
    IN  IF Len(set) > max_size + 1 THEN popitem_first(set) ELSE set

\* MessageAuthorCache.put
put(data, message_id, author_id) ==
    LET moved == IF message_id \in cache_keys(data)
                 THEN move_to_end(data, message_id) ELSE data
        set == setitem(moved, message_id, author_id)
    IN  IF Len(set) > max_size THEN popitem_first(set) ELSE set

\* MessageAuthorCache.get: the author returned and the dictionary left behind
get(data, message_id) ==
    LET author == cache_lookup(data, message_id)
    IN  [author |-> author,
         data |-> IF author # None THEN move_to_end(data, message_id) ELSE data]

\* ---- the reference: a map from key to value and time of last use
lru_keys(l) == {m \in MsgIds : l[m].used > 0}

\* the key whose last use is oldest
lru_oldest(l) == CHOOSE m \in lru_keys(l) : \A o \in lru_keys(l) : l[m].used <= l[o].used

lru_put(l, message_id, author_id, now) ==
    LET set == [l EXCEPT ![message_id] =
                    [author |-> author_id, used |-> now,
                     since |-> IF @.used > 0 THEN @.since ELSE now]]
    IN  IF Cardinality(lru_keys(set)) > max_size
        THEN [set EXCEPT ![lru_oldest(set)] = [author |-> None, used |-> 0, since |-> 0]]
        ELSE set

lru_get(l, message_id, now) ==
    IF l[message_id].used > 0 THEN [l EXCEPT ![message_id].used = now] ELSE l

\* cache.put(message_id, author_id)
Put ==
    \E m \in MsgIds, a \in Users :
        /\ nops < MaxCacheOps
        /\ cache' = put(cache, m, a)
        /\ lru' = lru_put(lru, m, a, nops + 1)
        /\ event' = [NoEvent EXCEPT !.op = "put", !.message_id = m, !.author = a,
                        !.outcome = IF m \notin cache_keys(cache) /\ Len(cache) >= max_size
                                    THEN "evicted" ELSE "kept"]
        /\ nops' = nops + 1
        /\ UNCHANGED <<users, servers, today, calls, last, reply, procs, users0, servers0, cog>>

\* cache.get(message_id)
Get ==
    \E m \in MsgIds :
        /\ nops < MaxCacheOps
        /\ cache' = get(cache, m).data
        /\ lru' = lru_get(lru, m, nops + 1)
        /\ event' = [NoEvent EXCEPT !.op = "get", !.message_id = m,
                        !.author = get(cache, m).author,
                        !.outcome = IF get(cache, m).author # None THEN "hit" ELSE "miss"]
        /\ nops' = nops + 1
        /\ UNCHANGED <<users, servers, today, calls, last, reply, procs, users0, servers0, cog>>

NextCache == Put \/ Get

SpecCache == Init /\ [][NextCache]_vars

\* -------------------------------- bot/cogs/stats_collector.py: the listeners
\* bot.user.id, the bot's own account
SelfId == MaxUsers + 1

\* another bot's account: message.author.bot is set for its messages
OtherBot == MaxUsers

IsBot(user_id) == user_id \in {OtherBot, SelfId}

\* a guild the bot is in besides the configured one
OtherGuild == TheGuild + 1

\* config.guild_id
config_guild_id == TheGuild

\* the guild an event carries: None for a direct message
EventGuilds == {None, TheGuild, OtherGuild}

\* message.author.id of the message with the given id
author_of(message_id) == ((message_id - 1) % MaxUsers) + 1

\* how channel.fetch_message (or the lookups before it) ends
Fetches == {"ok", "no_guild", "no_channel", "forbidden", "not_found", "error"}

\* variant: a record_message that raised is run once more
record_message_retry(us, ss, guild_id, user_id, ts, fail_at) ==
    LET day == date_key(ts)
        k == user_key(guild_id, user_id)
        us1 == IF fail_at = 1 THEN us ELSE [us EXCEPT ![k] = message_user_write(@, day)]
        us2 == IF fail_at = 0 THEN us1 ELSE [us1 EXCEPT ![k] = message_user_write(@, day)]
    IN  [users |-> us2,
         servers |-> [ss EXCEPT ![guild_id] = message_server_write(@, day, user_id)],
         raised |-> FALSE]

\* record_message when its store call number fail_at raises (0: none does):
\* the calls before it have taken effect, the exception leaves the function
record_message_store(us, ss, guild_id, user_id, ts, fail_at) ==
    LET day == date_key(ts)
        k == user_key(guild_id, user_id)
    IN  [users |-> IF fail_at = 1 THEN us
                   ELSE [us EXCEPT ![k] = message_user_write(@, day)],
         servers |-> IF fail_at # 0 THEN ss
                     ELSE [ss EXCEPT ![guild_id] = message_server_write(@, day, user_id)],
         raised |-> fail_at # 0]

\* _record_reaction_change when the update of its step fail_at raises
\* (1 reactor, 2 author, 3 server; 0: none does)
_record_reaction_change(us, ss, guild_id, reactor_id, message_author_id, delta, ts, fail_at) ==
    LET day == date_key(ts)
        given == IF fail_at = 1 THEN us
                 ELSE _update_user_counter(us, guild_id, reactor_id, "reactions_given",
                                           daily_path(day, "reactions_given"), delta)
        received == IF message_author_id = None \/ fail_at \in {1, 2} THEN given
                    ELSE _update_user_counter(given, guild_id, message_author_id,
                                              "reactions_received",
                                              daily_path(day, "reactions_received"), delta)
    IN  [users |-> received,
         servers |-> IF fail_at # 0 THEN ss
                     ELSE _update_server_reactions(ss, guild_id, day, delta),
         raised |-> fail_at # 0]

\* what a listener leaves behind when it returns at once
ignored(us, ss, data) ==
    [users |-> us, servers |-> ss, cache |-> data, author |-> None, fetch |-> "none",
     outcome |-> "ignored"]

\* variant: the cache is written before record_message is called
on_message_handler_cache_first(us, ss, data, guild_id, author_id, bot, message_id, ts, fail_at) ==
    IF bot \/ guild_id = None THEN ignored(us, ss, data)
    ELSE IF config_guild_id # None /\ guild_id # config_guild_id THEN ignored(us, ss, data)
    ELSE LET r == record_message_store(us, ss, guild_id, author_id, ts, fail_at)
         IN  [users |-> r.users, servers |-> r.servers,
              cache |-> put(data, message_id, author_id),
              author |-> author_id, fetch |-> "none",
              outcome |-> IF r.raised THEN "caught" ELSE "ok"]

\* StatsCollector.on_message
on_message_handler(us, ss, data, guild_id, author_id, bot, message_id, ts, fail_at) ==
    IF bot \/ guild_id = None THEN ignored(us, ss, data)
    ELSE IF config_guild_id # None /\ guild_id # config_guild_id THEN ignored(us, ss, data)
    ELSE LET r == record_message_store(us, ss, guild_id, author_id, ts, fail_at)
         IN  [users |-> r.users, servers |-> r.servers,
              cache |-> IF r.raised THEN data ELSE put(data, message_id, author_id),
              author |-> author_id, fetch |-> "none",
              outcome |-> IF r.raised THEN "caught" ELSE "ok"]

\* variant: discord.NotFound is not caught
_get_message_author_uncaught(data, message_id, fetch) ==
    LET cached == get(data, message_id)
    IN  IF cached.author # None
        THEN [author |-> cached.author, cache |-> cached.data, fetch |-> "none",
              raised |-> FALSE]
        ELSE IF fetch = "ok"
        THEN [author |-> author_of(message_id),
              cache |-> put(cached.data, message_id, author_of(message_id)),
              fetch |-> fetch, raised |-> FALSE]
        ELSE [author |-> None, cache |-> cached.data, fetch |-> fetch,
              raised |-> fetch = "not_found"]

\* variant: a fetched message's author is returned but not cached
_get_message_author_no_backfill(data, message_id, fetch) ==
    LET cached == get(data, message_id)
    IN  IF cached.author # None
        THEN [author |-> cached.author, cache |-> cached.data, fetch |-> "none",
              raised |-> FALSE]
        ELSE IF fetch = "ok"
        THEN [author |-> author_of(message_id), cache |-> cached.data,
              fetch |-> fetch, raised |-> FALSE]
        ELSE [author |-> None, cache |-> cached.data, fetch |-> fetch, raised |-> FALSE]

\* StatsCollector._get_message_author: every failure of the lookup is caught
\* and answered with None
_get_message_author(data, message_id, fetch) ==
    LET cached == get(data, message_id)
    IN  IF cached.author # None
        THEN [author |-> cached.author, cache |-> cached.data, fetch |-> "none",
              raised |-> FALSE]
        ELSE IF fetch = "ok"
        THEN [author |-> author_of(message_id),
              cache |-> put(cached.data, message_id, author_of(message_id)),
              fetch |-> fetch, raised |-> FALSE]
        ELSE [author |-> None, cache |-> cached.data, fetch |-> fetch, raised |-> FALSE]

\* StatsCollector._handle_reaction
_handle_reaction(us, ss, data, guild_id, user_id, message_id, is_add, fetch, ts, fail_at) ==
    IF guild_id = None THEN ignored(us, ss, data)
    ELSE IF config_guild_id # None /\ guild_id # config_guild_id THEN ignored(us, ss, data)
    ELSE IF SelfId # None /\ user_id = SelfId THEN ignored(us, ss, data)
    ELSE LET a == _get_message_author(data, message_id, fetch)
             r == _record_reaction_change(us, ss, guild_id, user_id, a.author,
                                          IF is_add THEN 1 ELSE -1, ts, fail_at)
         IN  IF a.raised
             THEN [users |-> us, servers |-> ss, cache |-> a.cache, author |-> None,
                   fetch |-> a.fetch, outcome |-> "raised"]
             ELSE [users |-> r.users, servers |-> r.servers, cache |-> a.cache,
                   author |-> a.author, fetch |-> a.fetch,
                   outcome |-> IF r.raised THEN "caught" ELSE "ok"]

\* the event record a listener's run leaves: whose event it was and on which
\* message, whether the author lookup went to fetch_message and failed there,
\* how the listener ended, and whether an earlier event was dropped on a store
\* failure
event_of(op, guild_id, user_id, message_id, r) ==
    [op |-> op, guild |-> guild_id, user |-> user_id, bot |-> IsBot(user_id),
     message_id |-> message_id, author |-> r.author,
     fetch |-> IF r.fetch \in {"none", "ok"} THEN r.fetch ELSE "failed",
     outcome |-> r.outcome,
     failures |-> IF r.outcome = "caught" THEN 1 ELSE event.failures]

\* the listener returns before it touches the cache or the store
filtered(guild_id, user_id, bot) ==
    \/ guild_id = None
    \/ config_guild_id # None /\ guild_id # config_guild_id
    \/ bot

\* a MessageCreated event is delivered, from one of `guilds`, its store call
\* number fail_at \in fails raising; an event the listener does not look into
\* is delivered once, not once per store failure it could have met
on_message_in(guilds, fails) ==
    /\ nops < MaxOps
    /\ \E g \in guilds, m \in MsgIds, fail_at \in fails :
        /\ filtered(g, author_of(m), IsBot(author_of(m))) => fail_at = 0
        /\ LET u == author_of(m)
               r == on_message_handler(users, servers, cache, g, u, IsBot(u), m,
                                       today, fail_at)
           IN  /\ users' = r.users
               /\ servers' = r.servers
               /\ cache' = r.cache
               /\ event' = event_of("message", g, u, m, r)
    /\ nops' = nops + 1
    /\ UNCHANGED <<today, calls, last, reply, procs, users0, servers0, lru, cog>>

\* a reaction event is delivered; fetch_message has an outcome only when the
\* listener gets to it, and the author-side update can fail only when it is made
on_raw_reaction_in(is_add, guilds, actors, fetches, fails) ==
    /\ nops < MaxOps
    /\ \E g \in guilds, u \in actors, m \in MsgIds, fetch \in fetches, fail_at \in fails :
        /\ filtered(g, u, u = SelfId) => fail_at = 0 /\ fetch = "ok"
        /\ cache_lookup(cache, m) # None => fetch = "ok"
        /\ cache_lookup(cache, m) = None /\ fetch # "ok" => fail_at # 2
        /\ LET r == _handle_reaction(users, servers, cache, g, u, m, is_add, fetch,
                                     today, fail_at)
           IN  /\ users' = r.users
               /\ servers' = r.servers
               /\ cache' = r.cache
               /\ event' = event_of(IF is_add THEN "add" ELSE "remove", g, u, m, r)
    /\ nops' = nops + 1
    /\ UNCHANGED <<today, calls, last, reply, procs, users0, servers0, lru, cog>>

\* the listeners with every store call succeeding: which events they take up
\* and how they resolve the author
on_message == on_message_in(EventGuilds, {0})

on_raw_reaction_add ==
    on_raw_reaction_in(TRUE, EventGuilds, Users \cup {SelfId}, Fetches, {0})

on_raw_reaction_remove ==
    on_raw_reaction_in(FALSE, EventGuilds, Users \cup {SelfId}, Fetches, {0})

NextAdapter == on_message \/ on_raw_reaction_add \/ on_raw_reaction_remove

SpecAdapter == Init /\ [][NextAdapter]_vars

\* the listeners on the configured guild's events, any store call failing
on_message_failing == on_message_in({TheGuild}, 0..2)

on_raw_reaction_add_failing ==
    on_raw_reaction_in(TRUE, {TheGuild}, Users, {"ok", "not_found"}, 0..3)

on_raw_reaction_remove_failing ==
    on_raw_reaction_in(FALSE, {TheGuild}, Users, {"ok", "not_found"}, 0..3)

NextFailing ==
    on_message_failing \/ on_raw_reaction_add_failing \/ on_raw_reaction_remove_failing

SpecFailing == Init /\ [][NextFailing]_vars

\* ------------------------------------------ the stats message and its channel
MaxIds == 2

\* the ids Discord gives to channels and to messages
StatsIds == 1..MaxIds

\* find_one({"_id": guild_id}, {"stats_message_id": 1}), then meta.get
get_stats_message_id(ss, guild_id) ==
    IF ss[guild_id].exists THEN ss[guild_id].stats_message_id ELSE None

\* variant: the document is written anew, with the pointer only
set_stats_message_id_replace(ss, guild_id, message_id) ==
    [ss EXCEPT ![guild_id] =
        [NoServerDoc EXCEPT !.exists = TRUE, !.stats_message_id = message_id]]

\* update_one($set stats_message_id, upsert=True)
set_stats_message_id(ss, guild_id, message_id) ==
    [ss EXCEPT ![guild_id] = [@ EXCEPT !.exists = TRUE, !.stats_message_id = message_id]]

\* update_one($set stats_channel_id, upsert=True)
set_stats_channel_id(ss, guild_id, channel_id) ==
    [ss EXCEPT ![guild_id] = [@ EXCEPT !.exists = TRUE, !.stats_channel_id = channel_id]]

SetStatsMessage ==
    /\ reply = NoReply
    /\ nops < MaxOps
    /\ \E g \in Guilds, message_id \in StatsIds :
        /\ servers' = set_stats_message_id(servers, g, message_id)
        /\ last' = [NoLast EXCEPT !.op = "set_stats_message_id", !.guild = g]
        /\ cog' = [cog EXCEPT !.last_message_id = message_id]
    /\ nops' = nops + 1
    /\ UNCHANGED <<users, today, calls, reply, procs, users0, servers0, cache, lru, event>>

SetStatsChannel ==
    /\ reply = NoReply
    /\ nops < MaxOps
    /\ \E g \in Guilds, channel_id \in StatsIds :
        /\ servers' = set_stats_channel_id(servers, g, channel_id)
        /\ last' = [NoLast EXCEPT !.op = "set_stats_channel_id", !.guild = g]
    /\ nops' = nops + 1
    /\ UNCHANGED <<users, today, calls, reply, procs, users0, servers0, cache, lru, event, cog>>

GetStatsMessage ==
    \E g \in Guilds :
        /\ reply = NoReply
        /\ reply' = [NoReply EXCEPT !.op = "stats_message_id", !.guild = g,
                        !.message_id = get_stats_message_id(servers, g)]
        /\ UNCHANGED <<users, servers, today, calls, last, nops, procs, users0, servers0, cache, lru, event, cog>>

\* the pointer operations among the operations that count events
NextPointers ==
    \/ Message \/ ReactionAdd \/ ReactionRemove
    \/ SetStatsMessage \/ SetStatsChannel \/ GetStatsMessage \/ Return

SpecPointers == Init /\ [][NextPointers]_vars

\* ------------------------------- bot/cogs/stats_commands.py: the stats message
\* the refreshes of one run
MaxRuns == 2

\* config.stats_channel_id
stats_channel_id == CHOOSE c \in StatsIds : TRUE

\* how channel.fetch_message of the stored message can end
MessageFetches == {"ok", "not_found", "forbidden", "error"}

\* how message.edit or channel.send can end
Deliveries == {"ok", "forbidden", "error"}

\* variant: a forbidden fetch is answered with None, like a message not found
_get_existing_message_lenient(ss, guild_id, fetch) ==
    LET message_id == get_stats_message_id(ss, guild_id)
    IN  IF message_id = None
        THEN [message |-> None, fetch |-> "none", raised |-> FALSE]
        ELSE IF fetch = "ok"
        THEN [message |-> message_id, fetch |-> fetch, raised |-> FALSE]
        ELSE IF fetch \in {"not_found", "forbidden"}
        THEN [message |-> None, fetch |-> fetch, raised |-> FALSE]
        ELSE [message |-> None, fetch |-> fetch, raised |-> TRUE]

\* StatsCommands._get_existing_message: None without a pointer or when the
\* stored message is not found; Forbidden and every other exception go on up
_get_existing_message(ss, guild_id, fetch) ==
    LET message_id == get_stats_message_id(ss, guild_id)
    IN  IF message_id = None
        THEN [message |-> None, fetch |-> "none", raised |-> FALSE]
        ELSE IF fetch = "ok"
        THEN [message |-> message_id, fetch |-> fetch, raised |-> FALSE]
        ELSE IF fetch = "not_found"
        THEN [message |-> None, fetch |-> fetch, raised |-> FALSE]
        ELSE [message |-> None, fetch |-> fetch, raised |-> TRUE]

\* StatsCommands.refresh_stats_message on the store ss and the cog c: guild_ok
\* and channel_ok say whether _target_guild and _get_stats_channel find
\* theirs, store_ok whether the first read of the store succeeds (its
\* exception leaves the function), fetch and delivery how the Discord calls
\* end. The windowed reads that fill the embed change nothing.
refresh_stats_message(ss, c, guild_id, guild_ok, store_ok, channel_ok, fetch, delivery) ==
    LET pointer == get_stats_message_id(ss, guild_id)
        ss1 == set_stats_channel_id(ss, guild_id, stats_channel_id)
        existing == _get_existing_message(ss1, guild_id, fetch)
        sent_id == c.sent + 1
        done(ss2, c2, outcome, message) ==
            [servers |-> ss2,
             cog |-> [c2 EXCEPT !.runs = @ + 1,
                                !.refresh = [outcome |-> outcome, pointer |-> pointer,
                                             fetch |-> existing.fetch,
                                             message |-> message]],
             raised |-> FALSE]
        early(outcome) ==
            [servers |-> ss,
             cog |-> [c EXCEPT !.runs = @ + 1,
                               !.refresh = [NoRefresh EXCEPT !.outcome = outcome,
                                                             !.pointer = pointer]],
             raised |-> outcome = "raised"]
    IN  IF ~guild_ok THEN early("no_guild")
        ELSE IF ~store_ok THEN early("raised")
        ELSE IF ~channel_ok THEN early("no_channel")
        ELSE IF existing.raised THEN done(ss1, c, "aborted", None)
        ELSE IF existing.message # None
        THEN IF delivery = "ok"
             THEN done(ss1, c, "edited", existing.message)
             ELSE done(ss1, c, "edit_failed", None)
        ELSE IF delivery = "ok"
        THEN done(set_stats_message_id(ss1, guild_id, sent_id),
                  [c EXCEPT !.channel = @ \cup {sent_id}, !.sent = sent_id,
                            !.last_message_id = sent_id],
                  "sent", sent_id)
        ELSE done(ss1, c, "send_failed", None)

\* the ways one refresh on the store ss and the cog c can go: the fetch finds
\* the stored message exactly when it is in the channel, unless the fetch
\* itself fails; the outcome of a call the refresh does not get to is not
\* drawn; a message is sent while the channel has ids to give
Refreshes(ss, c) ==
    LET pointer == get_stats_message_id(ss, TheGuild)
    IN  {refresh_stats_message(ss, c, TheGuild, i[1], i[2], i[3], i[4], i[5]) :
            i \in {j \in BOOLEAN \X BOOLEAN \X BOOLEAN \X MessageFetches \X Deliveries :
                    LET reaches_channel == j[1] /\ j[2]
                        reaches_fetch == reaches_channel /\ j[3] /\ pointer # None
                        reaches_delivery ==
                            /\ reaches_channel /\ j[3]
                            /\ pointer = None \/ j[4] \in {"ok", "not_found"}
                    IN  /\ ~j[1] => j[2]
                        /\ ~reaches_channel => j[3]
                        /\ ~reaches_fetch => j[4] = "not_found"
                        /\ (reaches_fetch /\ j[4] = "ok") => pointer \in c.channel
                        /\ (reaches_fetch /\ j[4] = "not_found") => pointer \notin c.channel
                        /\ ~reaches_delivery => j[5] = "ok"
                        /\ (reaches_delivery /\ j[5] = "ok" /\ j[4] # "ok") =>
                              c.sent < MaxIds}}

\* one refresh from start to end
Refresh ==
    /\ cog.runs < MaxRuns
    /\ \E r \in Refreshes(servers, cog) :
        /\ servers' = r.servers
        /\ cog' = r.cog
    /\ UNCHANGED <<users, today, calls, last, reply, nops, procs, users0, servers0, cache, lru, event>>

\* someone deletes one of the bot's messages in the stats channel
DeleteStatsMessage ==
    \E m \in cog.channel :
        /\ cog' = [cog EXCEPT !.channel = @ \ {m}]
        /\ UNCHANGED <<users, servers, today, calls, last, reply, nops, procs, users0, servers0, cache, lru, event>>

\* refreshes while message events go on being counted
NextRefresh == Message \/ Refresh \/ DeleteStatsMessage

SpecRefresh == Init /\ [][NextRefresh]_vars

\* ---------------------------------------------- on_ready and the schedules
\* variant: _start_schedules does not set the flag
_start_schedules_no_flag(c) ==
    [c EXCEPT !.weekly_tasks = @ + 1, !.monthly_tasks = @ + 1,
              !.loops["weekly"] = [NoLoop EXCEPT !.pc = "created"],
              !.loops["monthly"] = [NoLoop EXCEPT !.pc = "created"]]

\* StatsCommands._start_schedules: the flag, then one task for each loop
_start_schedules(c) ==
    [c EXCEPT !.schedules_started = TRUE,
              !.weekly_tasks = @ + 1, !.monthly_tasks = @ + 1,
              !.loops["weekly"] = [NoLoop EXCEPT !.pc = "created"],
              !.loops["monthly"] = [NoLoop EXCEPT !.pc = "created"]]

\* on_ready lines 64-65, which no await separates
on_ready_schedules(c) ==
    IF ~c.schedules_started THEN _start_schedules(c) ELSE c

\* an on_ready event is dispatched: _sync_commands returns at once when the
\* commands are synced, and then on_ready runs on to its refresh
ReadyStart(p) ==
    /\ procs[p].pc = "idle"
    /\ IF p = 1 THEN TRUE ELSE procs[p - 1].pc # "idle"
    /\ IF cog.synced
       THEN /\ cog' = on_ready_schedules([cog EXCEPT !.ready = TRUE])
            /\ procs' = [procs EXCEPT ![p] = [NoProc EXCEPT !.op = "on_ready",
                                                            !.pc = "refreshing"]]
       ELSE /\ cog' = [cog EXCEPT !.ready = TRUE]
            /\ procs' = [procs EXCEPT ![p] = [NoProc EXCEPT !.op = "on_ready",
                                                            !.pc = "syncing"]]
    /\ UNCHANGED <<users, servers, today, calls, last, reply, nops, users0, servers0, cache, lru, event>>

\* bot.tree.sync returns or raises (_sync_commands lines 198-207), and on_ready
\* goes on to lines 64-66
ReadySynced(p) ==
    /\ procs[p].op = "on_ready"
    /\ procs[p].pc = "syncing"
    /\ \E ok \in BOOLEAN :
        cog' = on_ready_schedules([cog EXCEPT !.synced = @ \/ ok])
    /\ procs' = [procs EXCEPT ![p].pc = "refreshing"]
    /\ UNCHANGED <<users, servers, today, calls, last, reply, nops, users0, servers0, cache, lru, event>>

\* the refresh of on_ready line 66 ends
ReadyRefreshed(p) ==
    /\ procs[p].op = "on_ready"
    /\ procs[p].pc = "refreshing"
    /\ \E r \in Refreshes(servers, cog) :
        /\ servers' = r.servers
        /\ cog' = r.cog
    /\ procs' = [procs EXCEPT ![p].pc = "done"]
    /\ UNCHANGED <<users, today, calls, last, reply, nops, users0, servers0, cache, lru, event>>

\* variant: an exception of the refresh leaves the loop
loop_after_refresh_uncaught(schedule, raised, closed) ==
    IF raised THEN "ended"
    ELSE IF schedule # "daily" /\ closed THEN "ended" ELSE "sleeping"

\* where a loop stands after its refresh returned or raised an Exception:
\* the exception is caught and logged (lines 99, 121, 132); the weekly and
\* monthly loops then test bot.is_closed(), the daily loop waits for its next
\* run
loop_after_refresh(schedule, raised, closed) ==
    IF schedule # "daily" /\ closed THEN "ended" ELSE "sleeping"

\* the refreshes all loops have awaited
Rounds(c) == c.loops["daily"].rounds + c.loops["weekly"].rounds + c.loops["monthly"].rounds

\* a loop's task begins to run once the bot is ready: wait_until_ready
\* returns, and the loop sleeps until its first date, unless the bot has
\* closed already (lines 104-105, 114-117, 125-128)
LoopStart(l) ==
    /\ cog.loops[l].pc = "created"
    /\ cog.ready
    /\ cog' = [cog EXCEPT !.loops[l].pc =
                  IF l # "daily" /\ cog.closed THEN "ended" ELSE "sleeping"]
    /\ UNCHANGED <<users, servers, today, calls, last, reply, nops, procs, users0, servers0, cache, lru, event>>

\* the date a loop sleeps until arrives: it calls refresh_stats_message
LoopWake(l) ==
    /\ cog.loops[l].pc = "sleeping"
    /\ Rounds(cog) < MaxRuns
    /\ cog' = [cog EXCEPT !.loops[l].pc = "refreshing"]
    /\ UNCHANGED <<users, servers, today, calls, last, reply, nops, procs, users0, servers0, cache, lru, event>>

\* the refresh a loop awaits returns or raises
LoopRefreshed(l) ==
    /\ cog.loops[l].pc = "refreshing"
    /\ \E r \in Refreshes(servers, cog) :
        /\ servers' = r.servers
        /\ cog' = [r.cog EXCEPT !.loops[l] =
                      [pc |-> loop_after_refresh(l, r.raised, cog.closed),
                       rounds |-> @.rounds + 1, failed |-> r.raised]]
    /\ UNCHANGED <<users, today, calls, last, reply, nops, procs, users0, servers0, cache, lru, event>>

\* cog_unload: the daily loop and every task that is not done are cancelled;
\* the CancelledError ends each at the await it stands at (lines 119-120,
\* 130-131), a refresh in flight taken not to have written yet
Unload ==
    /\ ~cog.unloaded
    /\ cog' = [cog EXCEPT !.unloaded = TRUE,
                          !.loops = [l \in Schedules |->
                                       IF cog.loops[l].pc \in {"none", "ended"}
                                       THEN cog.loops[l]
                                       ELSE [cog.loops[l] EXCEPT !.pc = "ended"]]]
    /\ UNCHANGED <<users, servers, today, calls, last, reply, nops, procs, users0, servers0, cache, lru, event>>

\* the bot closes: bot.is_closed() is true from here on
Close ==
    /\ ~cog.closed
    /\ cog' = [cog EXCEPT !.closed = TRUE]
    /\ UNCHANGED <<users, servers, today, calls, last, reply, nops, procs, users0, servers0, cache, lru, event>>

\* on_ready events as the gateway connects and reconnects, their awaits
\* interleaved, and the loops' tasks beginning to run
NextReady ==
    \/ \E p \in Procs : ReadyStart(p) \/ ReadySynced(p) \/ ReadyRefreshed(p)
    \/ \E l \in Schedules : LoopStart(l)

SpecReady == Init /\ [][NextReady]_vars

\* on_ready run from its first line to its last with no other coroutine in
\* between
on_ready ==
    /\ \A p \in Procs : procs[p].pc = "idle"
    /\ \E ok \in BOOLEAN :
        \E r \in Refreshes(servers,
                           on_ready_schedules([cog EXCEPT !.ready = TRUE,
                                                          !.synced = @ \/ ok])) :
            /\ servers' = r.servers
            /\ cog' = r.cog
    /\ procs' = [procs EXCEPT ![1] = [NoProc EXCEPT !.op = "on_ready", !.pc = "done"]]
    /\ UNCHANGED <<users, today, calls, last, reply, nops, users0, servers0, cache, lru, event>>

\* the three loops after the bot's on_ready, until the cog is unloaded or the
\* bot closes
NextLoops ==
    \/ on_ready
    \/ \E l \in Schedules : LoopStart(l) \/ LoopWake(l) \/ LoopRefreshed(l)
    \/ Unload \/ Close

SpecLoops == Init /\ [][NextLoops]_vars

\* ------------------------------------ refreshes whose awaits are interleaved
\* the callers of refresh_stats_message: on_ready, the three schedules, the
\* button of the stats message and the stat_refresh command
RefreshCallers == {"on_ready", "daily_refresh", "_weekly_refresh", "_monthly_refresh",
                   "refresh_button", "stat_refresh"}

\* a caller reaches its call of refresh_stats_message, which runs up to the
\* embed (lines 136-163): it returns without a guild, and an exception of the
\* reads that fill the embed leaves it; the reads change nothing
RefreshCall(p) ==
    /\ procs[p].pc = "idle"
    /\ IF p = 1 THEN TRUE ELSE procs[p - 1].pc # "idle"
    /\ \E caller \in RefreshCallers, guild_ok \in BOOLEAN, store_ok \in BOOLEAN :
        /\ ~guild_ok => store_ok
        /\ procs' = [procs EXCEPT ![p] =
                        [NoProc EXCEPT !.op = caller,
                                       !.pc = IF guild_ok /\ store_ok THEN "rendered"
                                              ELSE "done"]]
    /\ UNCHANGED <<users, servers, today, calls, last, reply, nops, users0, servers0, cache, lru, event, cog>>

\* _get_stats_channel returns (line 165); with a channel the refresh stores
\* its id (line 169) and calls _get_existing_message
RefreshChannel(p) ==
    /\ procs[p].pc = "rendered"
    /\ \E channel_ok \in BOOLEAN :
        IF channel_ok
        THEN /\ servers' = set_stats_channel_id(servers, TheGuild, stats_channel_id)
             /\ procs' = [procs EXCEPT ![p].pc = "reading"]
        ELSE /\ servers' = servers
             /\ procs' = [procs EXCEPT ![p].pc = "done"]
    /\ UNCHANGED <<users, today, calls, last, reply, nops, users0, servers0, cache, lru, event, cog>>

\* the find_one of get_stats_message_id returns (line 223): without a pointer
\* _get_existing_message returns None and the refresh calls channel.send,
\* with one it calls channel.fetch_message
RefreshRead(p) ==
    /\ procs[p].pc = "reading"
    /\ procs' = [procs EXCEPT ![p].existing_server = servers[TheGuild],
                              ![p].pc = IF get_stats_message_id(servers, TheGuild) = None
                                        THEN "sending" ELSE "fetching"]
    /\ UNCHANGED <<users, servers, today, calls, last, reply, nops, users0, servers0, cache, lru, event, cog>>

\* channel.fetch_message returns or raises (lines 226-236): the message the
\* pointer read refers to is found exactly when it is in the channel
RefreshFetch(p) ==
    /\ procs[p].pc = "fetching"
    /\ \E fetch \in MessageFetches :
        LET me == procs[p]
            seen == [g \in Guilds |-> me.existing_server]
            existing == _get_existing_message(seen, TheGuild, fetch)
        IN  /\ fetch = "ok" => me.existing_server.stats_message_id \in cog.channel
            /\ fetch = "not_found" => me.existing_server.stats_message_id \notin cog.channel
            /\ procs' = [procs EXCEPT ![p].message = existing.message,
                                      ![p].pc = IF existing.raised THEN "done"
                                                ELSE IF existing.message # None THEN "editing"
                                                ELSE "sending"]
    /\ UNCHANGED <<users, servers, today, calls, last, reply, nops, users0, servers0, cache, lru, event, cog>>

\* message.edit returns or raises (lines 178, 182-185): nothing is stored
RefreshEdit(p) ==
    /\ procs[p].pc = "editing"
    /\ \E delivery \in Deliveries :
        procs' = [procs EXCEPT ![p].pc = "done",
                               ![p].message = IF delivery = "ok" THEN @ ELSE None]
    /\ UNCHANGED <<users, servers, today, calls, last, reply, nops, users0, servers0, cache, lru, event, cog>>

\* channel.send returns the new message or raises (lines 180, 182-185); the
\* channel gives its ids in order
RefreshSend(p) ==
    /\ procs[p].pc = "sending"
    /\ \E delivery \in Deliveries :
        IF delivery = "ok"
        THEN /\ cog.sent < MaxIds
             /\ cog' = [cog EXCEPT !.channel = @ \cup {cog.sent + 1}, !.sent = @ + 1]
             /\ procs' = [procs EXCEPT ![p].message = cog.sent + 1, ![p].pc = "storing"]
        ELSE /\ cog' = cog
             /\ procs' = [procs EXCEPT ![p].pc = "done"]
    /\ UNCHANGED <<users, servers, today, calls, last, reply, nops, users0, servers0, cache, lru, event>>

\* set_stats_message_id(guild.id, sent.id) returns (line 181)
RefreshStore(p) ==
    /\ procs[p].pc = "storing"
    /\ servers' = set_stats_message_id(servers, TheGuild, procs[p].message)
    /\ cog' = [cog EXCEPT !.last_message_id = procs[p].message]
    /\ procs' = [procs EXCEPT ![p].pc = "done"]
    /\ UNCHANGED <<users, today, calls, last, reply, nops, users0, servers0, cache, lru, event>>

\* refreshes called while others are under way: each runs from one await to
\* the next, and nothing orders the awaits of different refreshes
NextOverlap ==
    \E p \in Procs :
        \/ RefreshCall(p)
        \/ RefreshChannel(p)
        \/ RefreshRead(p)
        \/ RefreshFetch(p)
        \/ RefreshEdit(p)
        \/ RefreshSend(p)
        \/ RefreshStore(p)

SpecOverlap == Init /\ [][NextOverlap]_vars

\* ============================================================== properties
RECURSIVE SumOver(_, _, _)
SumOver(daily_stats, keys, name) ==
    IF keys = {} THEN 0
    ELSE LET k == CHOOSE x \in keys : TRUE
         IN  daily_stats[k][name] + SumOver(daily_stats, keys \ {k}, name)

\* the sum of one counter over all day buckets of a document
DailySum(doc, name) == SumOver(doc.daily_stats, DOMAIN doc.daily_stats, name)

UserCounters == {"total_messages", "reactions_given", "reactions_received"}
UserDayCounters == {"messages", "reactions_given", "reactions_received"}

\* C1: after any sequence of record_message calls, each user's total_messages
\* is the number of calls made for that user, and so is the sum of its
\* daily_stats[d].messages over all days, whatever days the messages fall on.
C1_MessageCount ==
    \A k \in Keys :
        /\ users[k].total_messages = calls[k]
        /\ DailySum(users[k], "messages") = calls[k]

\* a user with two messages, on two different days
C1_Witness ==
    \E k \in Keys :
        /\ calls[k] >= 2
        /\ \E d1, d2 \in DayKeys :
              /\ d1 # d2
              /\ users[k].daily_stats[d1].messages >= 1
              /\ users[k].daily_stats[d2].messages >= 1

\* C2: after any sequence of message, reaction-add and reaction-remove
\* operations run one at a time, every stored counter is >= 0.
C2_NonNegative ==
    /\ \A k \in Keys :
          /\ \A f \in UserCounters : users[k][f] >= 0
          /\ \A d \in DayKeys, f \in UserDayCounters : users[k].daily_stats[d][f] >= 0
    /\ \A g \in Guilds, d \in DayKeys :
          /\ servers[g].daily_stats[d].messages >= 0
          /\ servers[g].daily_stats[d].reactions >= 0

\* a remove that arrived on a later day than its add: the total is back at 0
\* while the bucket of the add's day still holds the reaction
C2_Witness ==
    /\ last.op \in {"remove", "add_remove"}
    /\ users[user_key(last.guild, last.user)].reactions_given = 0
    /\ \E d \in DayKeys :
          /\ strptime(d) < last.day
          /\ users[user_key(last.guild, last.user)].daily_stats[d].reactions_given > 0

\* the step is a record_reaction_remove of reactor r in guild g
RemoveStep(g, r) ==
    /\ nops' = nops + 1
    /\ last'.op \in {"remove", "add_remove"}
    /\ last'.guild = g
    /\ last'.user = r

\* C3: record_reaction_remove for a reactor whose reactions_given is 0 (or who
\* has no record) leaves reactions_given and the day bucket at 0, makes nothing
\* negative and creates no user record.
C3_RemoveAtZero ==
    [][\A g \in Guilds, r \in Users :
         LET k == user_key(g, r)
             day == date_key(last'.day)
         IN  (RemoveStep(g, r) /\ users[k].reactions_given = 0) =>
                /\ users'[k].reactions_given = 0
                /\ users[k].daily_stats[day].reactions_given = 0
                /\ users'[k].daily_stats[day].reactions_given = 0
                /\ users'[k].exists = users[k].exists
                /\ \A f \in UserCounters : users'[k][f] >= 0
                /\ \A d \in DayKeys, f \in UserDayCounters :
                      users'[k].daily_stats[d][f] >= 0
                /\ last'.author # r => users'[k] = users[k]]_vars

\* a remove for a reactor who had no record: still none afterwards
C3_Witness ==
    /\ last.op = "remove"
    /\ last.pre_given = 0
    /\ ~last.pre_exists
    /\ ~users[user_key(last.guild, last.user)].exists

\* C4: record_reaction_add followed at once by record_reaction_remove with the
\* same guild, reactor and author brings the reactor's reactions_given and the
\* author's reactions_received back to their values before the add.
C4_AddRemoveRoundTrip ==
    last.op = "add_remove" =>
        /\ users[user_key(last.guild, last.user)].reactions_given = last.pre_given
        /\ received_of(users, last.guild, last.author) = last.pre_received

\* an add and its remove, on a message whose author was resolved
C4_Witness ==
    /\ last.op = "add_remove"
    /\ last.author # None
    /\ last.author # last.user

\* C5: after any sequence of reaction adds and removes (event days
\* non-decreasing), each user's reactions_given equals the sum of
\* daily_stats[d].reactions_given over all days, and reactions_received equals
\* the sum of daily_stats[d].reactions_received.
C5_ReactionTotalsMatchDaily ==
    \A k \in Keys :
        /\ users[k].reactions_given = DailySum(users[k], "reactions_given")
        /\ users[k].reactions_received = DailySum(users[k], "reactions_received")

\* the sum of one counter over the buckets of the calendar days lo..hi
RECURSIVE SumDays(_, _, _, _)
SumDays(daily_stats, name, lo, hi) ==
    IF lo > hi THEN 0
    ELSE (IF lo \in Days THEN daily_stats[date_key(lo)][name] ELSE 0)
         + SumDays(daily_stats, name, lo + 1, hi)

LastDay == MaxDay - 1

\* the first day of the window of `days` days ending on day `now`
WindowStart(days, now) == now - (days - 1)

\* the day keys dated on or after the window's first day
KeysFrom(days, now) == {date_key(d) : d \in {x \in Days : x >= WindowStart(days, now)}}

\* no bucket dated after `now` holds anything
NothingAfter(doc, now) ==
    \A d \in Days : d > now =>
        /\ doc.daily_stats[date_key(d)].messages = 0
        /\ doc.daily_stats[date_key(d)].reactions = 0

\* C6 as claimed: get_server_windows(guild, days, now=T) returns the sums over
\* exactly the `days` day buckets ending at date_key(T); no other bucket counts.
C6_ExactWindow ==
    reply.op = "server_windows" =>
        LET daily == servers[reply.guild].daily_stats
            lo == WindowStart(reply.days, reply.now)
        IN  /\ reply.messages = SumDays(daily, "messages", lo, reply.now)
            /\ reply.reactions = SumDays(daily, "reactions", lo, reply.now)

\* C6 amended: get_server_windows(guild, days, now=T), days >= 1, returns the
\* sums over every bucket dated on or after date_key(T) - (days - 1), buckets
\* dated after T included; older buckets contribute nothing.  When no bucket
\* dated after T holds anything, that is exactly the `days` buckets ending at
\* date_key(T), and for days = 1 the single bucket of date_key(T).
C6_WindowFromCutoff ==
    reply.op = "server_windows" =>
        LET doc == servers[reply.guild]
            daily == doc.daily_stats
            lo == WindowStart(reply.days, reply.now)
        IN  /\ reply.messages = SumDays(daily, "messages", lo, LastDay)
            /\ reply.reactions = SumDays(daily, "reactions", lo, LastDay)
            /\ NothingAfter(doc, reply.now) =>
                  /\ reply.messages = SumDays(daily, "messages", lo, reply.now)
                  /\ reply.reactions = SumDays(daily, "reactions", lo, reply.now)
                  /\ reply.days = 1 =>
                        reply.messages = daily[date_key(reply.now)].messages

\* a reply that counts today's bucket and leaves an older, non-empty one out
C6_Witness ==
    /\ reply.op = "server_windows"
    /\ reply.messages >= 1
    /\ NothingAfter(servers[reply.guild], reply.now)
    /\ \E d \in Days :
          /\ d < WindowStart(reply.days, reply.now)
          /\ servers[reply.guild].daily_stats[date_key(d)].messages >= 1

\* C7: get_server_windows returns as active_users the number of distinct users
\* in the union of the in-window days' active_users sets, and never more than
\* the number of distinct users who posted in the window.
C7_ActiveUsersUnion ==
    reply.op = "server_windows" =>
        LET daily == servers[reply.guild].daily_stats
            keys == KeysFrom(reply.days, reply.now)
            posted == {u \in Users : \E d \in keys :
                          users[user_key(reply.guild, u)].daily_stats[d].messages >= 1}
        IN  /\ reply.active_users = Cardinality(UNION {daily[d].active_users : d \in keys})
            /\ reply.active_users <= Cardinality(posted)

\* one user active on two in-window days, counted once
C7_Witness ==
    /\ reply.op = "server_windows"
    /\ reply.active_users = 1
    /\ \E u \in Users, d1, d2 \in KeysFrom(reply.days, reply.now) :
          /\ d1 # d2
          /\ u \in servers[reply.guild].daily_stats[d1].active_users
          /\ u \in servers[reply.guild].daily_stats[d2].active_users

\* the messages user u posted on the days from the window's first day on
WindowMessages(g, u, days, now) ==
    SumDays(users[user_key(g, u)].daily_stats, "messages", WindowStart(days, now), LastDay)

\* no returned user has an in-window message sum of zero, and each is paired
\* with its sum
NoZeroUsers ==
    \A i \in 1..Len(reply.top) :
        /\ reply.top[i][2] > 0
        /\ reply.top[i][2] = WindowMessages(reply.guild, reply.top[i][1], reply.days, reply.now)

Posters(g, d) == {u \in Users : users[user_key(g, u)].daily_stats[d].messages >= 1}

\* the step is a record_message of user u in guild g
MessageStep(g, u) ==
    /\ nops' = nops + 1
    /\ last'.op = "message"
    /\ last'.guild = g
    /\ last'.user = u

\* C9: between operations, for every guild and day d the server's
\* daily_stats[d].active_users is the set of users whose own record has
\* daily_stats[d].messages >= 1, and a further message of a user already in
\* the set leaves the set unchanged.
C9_ActiveUsersAreThePosters ==
    /\ [](\A g \in Guilds, d \in DayKeys :
             servers[g].daily_stats[d].active_users = Posters(g, d))
    /\ [][\A g \in Guilds, u \in Users :
             LET d == date_key(last'.day)
             IN  (MessageStep(g, u) /\ u \in servers[g].daily_stats[d].active_users) =>
                    servers'[g].daily_stats[d].active_users
                        = servers[g].daily_stats[d].active_users]_vars

\* a user who posted twice on one day
C9_Witness ==
    \E g \in Guilds, u \in Users, d \in DayKeys :
        /\ users[user_key(g, u)].daily_stats[d].messages >= 2
        /\ servers[g].daily_stats[d].active_users = {u}

\* the operations of kind op the burst has run to completion
Completed(op) == {p \in Procs : procs[p].pc = "done" /\ procs[p].op = op}

\* nothing is in flight, and no reaction-remove took part
QuietNoRemove ==
    /\ \A p \in Procs : procs[p].pc \in {"idle", "done"}
    /\ \A p \in Procs : procs[p].op # "remove"

\* C10: once k concurrent record_message and j concurrent record_reaction_add
\* operations on one user key and one server key have all completed, in any
\* interleaving, total_messages and the user and server day messages have grown
\* by exactly k, reactions_given, its day bucket and the server day reactions by
\* exactly j.
C10_NoLostIncrement ==
    QuietNoRemove =>
        LET k == Cardinality(Completed("message"))
            j == Cardinality(Completed("add"))
            key == user_key(TheGuild, BurstUser)
            day == date_key(today)
        IN  /\ users[key].total_messages = users0[key].total_messages + k
            /\ users[key].daily_stats[day].messages
                  = users0[key].daily_stats[day].messages + k
            /\ servers[TheGuild].daily_stats[day].messages
                  = servers0[TheGuild].daily_stats[day].messages + k
            /\ users[key].reactions_given = users0[key].reactions_given + j
            /\ users[key].daily_stats[day].reactions_given
                  = users0[key].daily_stats[day].reactions_given + j
            /\ servers[TheGuild].daily_stats[day].reactions
                  = servers0[TheGuild].daily_stats[day].reactions + j

\* a message and a reaction-add of the burst both completed, on a store that
\* already held a reaction
C10_Witness ==
    /\ QuietNoRemove
    /\ Completed("message") # {}
    /\ Completed("add") # {}
    /\ users0[user_key(TheGuild, BurstUser)].reactions_given >= 1

\* the coroutines of the burst whose reactor-side update is behind them
GivenWritten == {p \in Procs : procs[p].pc \in {"recv_find", "recv_write", "server",
                                                 "server_write", "done"}}

\* the coroutines of the burst whose server-side update is behind them
ServerWritten == {p \in Procs : procs[p].op \in {"add", "remove"} /\ procs[p].pc = "done"}

\* the sum over the coroutines ps of the delta each one's read allowed it
RECURSIVE SumApplied(_, _)
SumApplied(ps, field) ==
    IF ps = {} THEN 0
    ELSE LET p == CHOOSE x \in ps : TRUE
         IN  procs[p].seen[field] + SumApplied(ps \ {p}, field)

\* the removes among ps whose read found something to decrement
Decrementing(ps, field) ==
    {p \in ps : procs[p].op = "remove" /\ procs[p].seen[field] < 0}

\* C11: each record_reaction_remove decrements by what its own find_one read,
\* whatever was written between its read and its write: every counter of the
\* key is its starting value plus the deltas so computed, it is below zero
\* only when two removes that both read a positive value have written, and
\* then by at most the number of such removes less one.  Two interleaved
\* removes do reach a value below zero.
C11_StaleReadDecrements ==
    LET key == user_key(TheGuild, BurstUser)
        day == date_key(today)
        given == users[key].reactions_given
        bucket == users[key].daily_stats[day].reactions_given
        server == servers[TheGuild].daily_stats[day].reactions
    IN  /\ given = users0[key].reactions_given + SumApplied(GivenWritten, "total")
        /\ bucket = users0[key].daily_stats[day].reactions_given
                        + SumApplied(GivenWritten, "daily")
        /\ server = servers0[TheGuild].daily_stats[day].reactions
                        + SumApplied(ServerWritten, "server")
        /\ given < 0 => /\ Cardinality(Decrementing(GivenWritten, "total")) >= 2
                        /\ given >= 1 - Cardinality(Decrementing(GivenWritten, "total"))
        /\ server < 0 => /\ Cardinality(Decrementing(ServerWritten, "server")) >= 2
                         /\ server >= 1 - Cardinality(Decrementing(ServerWritten, "server"))

\* two removes have run, interleaved, on a store holding one reaction: the
\* reactor's total, its day bucket and the server's day reactions are all -1
C11_Witness ==
    LET key == user_key(TheGuild, BurstUser)
        day == date_key(today)
    IN  /\ \A p \in Procs : procs[p].pc = "done" => procs[p].op = "remove"
        /\ Cardinality({p \in Procs : procs[p].pc = "done"}) >= 2
        /\ users[key].reactions_given < 0
        /\ users[key].daily_stats[day].reactions_given < 0
        /\ servers[TheGuild].daily_stats[day].reactions < 0

\* the cache holds each key once
NoDuplicateKeys == \A i, j \in 1..Len(cache) : cache[i][1] = cache[j][1] => i = j

\* C16: after any sequence of put and get operations on MessageAuthorCache the
\* number of entries never exceeds max_size.
C16_CacheBounded ==
    /\ Len(cache) <= max_size
    /\ NoDuplicateKeys

\* a put of a new key into a full cache: still max_size entries
C16_Witness ==
    /\ event.op = "put"
    /\ event.outcome = "evicted"
    /\ Len(cache) = max_size

\* C17: MessageAuthorCache behaves as the reference LRU map: it holds the keys
\* the reference holds (so an overflowing put evicted the key whose last put
\* or successful get was oldest), in the order of their last use (a get or
\* re-put makes a key the most recent), each with the author last put for it,
\* and a get returns that author, None for a key not held.
C17_CacheIsLru ==
    /\ NoDuplicateKeys
    /\ cache_keys(cache) = lru_keys(lru)
    /\ \A i \in 1..Len(cache) : cache[i][2] = lru[cache[i][1]].author
    /\ \A i, j \in 1..Len(cache) :
          i < j => lru[cache[i][1]].used < lru[cache[j][1]].used
    /\ event.op = "get" => event.author = lru[event.message_id].author

\* a put that evicted a key entered later than one it left in place: the
\* entry of the very first put is still held, having been used (by a get or a
\* re-put) after the evicted key was last used
C17_Witness ==
    /\ event.op = "put"
    /\ event.outcome = "evicted"
    /\ \E o \in cache_keys(cache) : o # event.message_id /\ lru[o].since = 1

\* the step is a listener's run for an event of kind op
ListenerStep(op) == nops' = nops + 1 /\ event'.op = op

\* C12: on a reaction-add event whose message author cannot be resolved (cache
\* miss, and the fetch fails with not-found, forbidden or any other error) the
\* listener still increments the reactor's reactions_given (total and day
\* bucket) and the server's day reactions, changes no author-side counter of
\* any user, and returns without raising.
C12_UnresolvedAuthor ==
    [][(ListenerStep("add") /\ event'.fetch = "failed") =>
          LET k == user_key(event'.guild, event'.user)
              day == date_key(today)
          IN  /\ event'.author = None
              /\ event'.outcome = "ok"
              /\ users'[k].reactions_given = users[k].reactions_given + 1
              /\ users'[k].daily_stats[day].reactions_given
                    = users[k].daily_stats[day].reactions_given + 1
              /\ servers'[event'.guild].daily_stats[day].reactions
                    = servers[event'.guild].daily_stats[day].reactions + 1
              /\ \A j \in Keys :
                    /\ users'[j].reactions_received = users[j].reactions_received
                    /\ \A d \in DayKeys : users'[j].daily_stats[d].reactions_received
                                            = users[j].daily_stats[d].reactions_received
                    /\ j # k => users'[j] = users[j]]_vars

\* a reaction-add on a message that is not cached and could not be fetched,
\* by a reactor who had reacted before
C12_Witness ==
    /\ event.op = "add"
    /\ event.fetch = "failed"
    /\ event.author = None
    /\ event.outcome = "ok"
    /\ users[user_key(event.guild, event.user)].reactions_given >= 2

\* C13: when a store operation fails inside on_message or a reaction listener,
\* the listener returns without raising and the event is dropped, not retried:
\* a message event raises its author's total_messages by at most 1 and no
\* other user's, and leaves the cache alone when it failed; an event handled
\* without a failure, also one that follows a dropped event, is recorded in
\* full.
C13_StoreFailureDropsEvent ==
    [][nops' = nops + 1 =>
          LET k == user_key(event'.guild, event'.user)
              day == date_key(today)
          IN  /\ event'.outcome \in {"ok", "caught", "ignored"}
              /\ event'.op = "message" =>
                    /\ users'[k].total_messages - users[k].total_messages \in {0, 1}
                    /\ \A j \in Keys \ {k} : users'[j] = users[j]
                    /\ event'.outcome = "caught" =>
                          /\ cache' = cache
                          /\ servers' = servers
                    /\ event'.outcome = "ok" =>
                          /\ users'[k].total_messages = users[k].total_messages + 1
                          /\ servers'[event'.guild].daily_stats[day].messages
                                = servers[event'.guild].daily_stats[day].messages + 1
              /\ (event'.op = "add" /\ event'.outcome = "ok") =>
                    /\ users'[k].reactions_given = users[k].reactions_given + 1
                    /\ servers'[event'.guild].daily_stats[day].reactions
                          = servers[event'.guild].daily_stats[day].reactions + 1
              /\ (event'.op = "add" /\ event'.outcome = "caught") =>
                    /\ users'[k].reactions_given - users[k].reactions_given \in {0, 1}
                    /\ servers' = servers]_vars

\* a message recorded in full after an earlier event was dropped half-way: the
\* author's total is ahead of the server's count of the day
C13_Witness ==
    /\ event.op = "message"
    /\ event.outcome = "ok"
    /\ event.failures = 1
    /\ users[user_key(event.guild, event.user)].total_messages = 2
    /\ servers[event.guild].daily_stats[date_key(today)].messages = 1

\* C15: when a guild is configured, no message or reaction event whose actor is
\* a bot, or whose guild differs from the configured guild, changes any
\* counter: on_message, on_raw_reaction_add and on_raw_reaction_remove leave
\* the counter store and the recency cache unchanged for such events.
C15_BotAndForeignEventsIgnored ==
    [][(nops' = nops + 1 /\ (event'.bot \/ event'.guild # config_guild_id)) =>
          /\ users' = users
          /\ servers' = servers
          /\ cache' = cache]_vars

\* C14: get_user_summary for a (guild, user) with no record returns all six
\* fields equal to 0 rather than an error, and leaves the store unchanged: the
\* query creates no record.
C14_AbsentUserSummary ==
    /\ []((reply.op = "user_summary"
             /\ ~users[user_key(reply.guild, reply.user)].exists) =>
            /\ DOMAIN reply.summary = {"total_messages", "reactions_given",
                                       "reactions_received", "messages_7d",
                                       "messages_30d", "reactions_given_7d"}
            /\ \A f \in DOMAIN reply.summary : reply.summary[f] = 0)
    /\ [][reply'.op = "user_summary" => (users' = users /\ servers' = servers)]_vars

\* a summary asked for a user without a record, in a guild where another user
\* has one
C14_Witness ==
    /\ reply.op = "user_summary"
    /\ ~users[user_key(reply.guild, reply.user)].exists
    /\ \E u \in Users : users[user_key(reply.guild, u)].total_messages >= 1

\* the message operations that failed or are still in flight
Unfinished == {p \in Procs : procs[p].pc \notin {"idle", "done"}}

\* the sum over the guild's users of their day-d message buckets
RECURSIVE UsersDayMessages(_, _, _)
UsersDayMessages(g, d, us) ==
    IF us = {} THEN 0
    ELSE LET u == CHOOSE x \in us : TRUE
         IN  users[user_key(g, u)].daily_stats[d].messages
             + UsersDayMessages(g, d, us \ {u})

\* C18: when a record_message may fail or crash between its user-side and its
\* server-side write, in every reachable state, for every guild and day d, the
\* server's daily_stats[d].messages is <= the sum of daily_stats[d].messages
\* over the guild's users; the gap is the number of that day's operations
\* stopped or standing between the two writes, so at most the number of
\* message operations that failed or are in flight, and 0 when every started
\* operation completed both writes.
C18_ServerBehindUsers ==
    \A g \in Guilds, d \in Days :
        LET server == servers[g].daily_stats[date_key(d)].messages
            sum == UsersDayMessages(g, date_key(d), Users)
            between == {p \in Procs : /\ procs[p].day = d
                                      /\ procs[p].pc \in {"msg_server", "failed_between"}}
        IN  /\ server <= sum
            /\ sum - server = Cardinality(between)
            /\ sum - server <= Cardinality(Unfinished)
            /\ Unfinished = {} => sum = server

\* one message was recorded in full and one stopped between its writes, on
\* the same day: the server counts 1, the users 2
C18_Witness ==
    /\ \E p \in Procs : procs[p].pc = "failed_between"
    /\ \E p \in Procs : procs[p].pc = "done"
    /\ \E g \in Guilds, d \in Days :
          /\ servers[g].daily_stats[date_key(d)].messages = 1
          /\ UsersDayMessages(g, date_key(d), Users) = 2

\* C19: a guarded decrement clamps the total and the day bucket independently:
\* with total > 0 and day value 0 the total drops by 1 and the day value stays
\* 0; with total 0 and day value > 0 the day value drops by 1 and the total
\* stays 0; with both > 0 both drop by exactly 1; with both <= 0 nothing is
\* written.
C19_IndependentClamps ==
    nops = 1 =>
        LET k == user_key(last.guild, last.user)
            day == date_key(today)
            total0 == users0[k][last.op]
            daily0 == users0[k].daily_stats[day][last.op]
            total1 == users[k][last.op]
            daily1 == users[k].daily_stats[day][last.op]
        IN  /\ (total0 > 0 /\ daily0 = 0) => (total1 = total0 - 1 /\ daily1 = 0)
            /\ (total0 = 0 /\ daily0 > 0) => (total1 = 0 /\ daily1 = daily0 - 1)
            /\ (total0 > 0 /\ daily0 > 0) => (total1 = total0 - 1 /\ daily1 = daily0 - 1)
            /\ (total0 <= 0 /\ daily0 <= 0) => users = users0
            /\ \A j \in Keys \ {k} : users[j] = users0[j]
            /\ \A f \in UserCounters \ {last.op} : users[k][f] = users0[k][f]

\* a decrement that found the total at 0 and the day value above 0
C19_Witness ==
    /\ nops = 1
    /\ users0[user_key(last.guild, last.user)][last.op] = 0
    /\ users0[user_key(last.guild, last.user)].daily_stats[date_key(today)][last.op] = 2
    /\ users[user_key(last.guild, last.user)].daily_stats[date_key(today)][last.op] = 1

\* the users of guild g with a message in a bucket dated on or after the
\* first day of the window
InWindowPosters(g, days, now) == {u \in Users : WindowMessages(g, u, days, now) > 0}

\* C20: in every windowed query (get_server_windows, get_top_users_by_messages,
\* _sum_daily) a stored day-key is counted if and only if its date is >=
\* cutoff = date(now) - (days - 1); there is no upper bound, so a bucket dated
\* after `now` is counted too.
C20_CountedIffFromCutoff ==
    /\ reply.op = "server_windows" =>
          reply.messages = SumDays(servers[reply.guild].daily_stats, "messages",
                                   WindowStart(reply.days, reply.now), LastDay)
    /\ reply.op = "top_users" =>
          /\ NoZeroUsers
          /\ \A u \in InWindowPosters(reply.guild, reply.days, reply.now) :
                \/ \E i \in 1..Len(reply.top) : reply.top[i][1] = u
                \/ Len(reply.top) = reply.limit
    /\ reply.op = "user_summary" =>
          LET daily == users[user_key(reply.guild, reply.user)].daily_stats
          IN  /\ reply.summary.messages_7d
                    = SumDays(daily, "messages", WindowStart(days_7d, reply.now), LastDay)
              /\ reply.summary.messages_30d
                    = SumDays(daily, "messages", WindowStart(days_30d, reply.now), LastDay)
              /\ reply.summary.reactions_given_7d
                    = SumDays(daily, "reactions_given", WindowStart(days_7d, reply.now),
                              LastDay)

\* a ranking that lists a user all of whose messages are dated after `now`
C20_Witness ==
    /\ reply.op = "top_users"
    /\ \E i \in 1..Len(reply.top) :
          LET daily == users[user_key(reply.guild, reply.top[i][1])].daily_stats
          IN  /\ \A d \in Days : d <= reply.now => daily[date_key(d)].messages = 0
              /\ \E d \in Days : d > reply.now /\ daily[date_key(d)].messages >= 1

\* C21: a window length days <= 0 is treated as days = 1: get_server_windows,
\* get_top_users_by_messages and _sum_daily return for days <= 0 what they
\* return for days = 1 on the same store and the same `now`, which is the sum
\* over the buckets dated `now` or later.
C21_NonPositiveDaysAsOne ==
    reply.days <= 0 =>
        /\ reply.op = "server_windows" =>
              LET one == get_server_windows(servers, reply.guild, 1, reply.now)
              IN  /\ reply.messages = one.messages
                  /\ reply.reactions = one.reactions
                  /\ reply.active_users = one.active_users
                  /\ reply.messages = SumDays(servers[reply.guild].daily_stats,
                                              "messages", reply.now, LastDay)
        /\ reply.op = "top_users" =>
              /\ \E cursor \in Cursors(users, reply.guild) :
                    reply.top = get_top_users_by_messages(users, cursor, 1,
                                                          reply.limit, reply.now)
              /\ \A i \in 1..Len(reply.top) :
                    reply.top[i][2] = WindowMessages(reply.guild, reply.top[i][1],
                                                     1, reply.now)
        /\ reply.op = "sum_daily" =>
              LET daily_stats == users[user_key(reply.guild, reply.user)].daily_stats
              IN  /\ reply.daily = _sum_daily(daily_stats, 1, reply.now)
                  /\ reply.daily.messages
                        = SumDays(daily_stats, "messages", reply.now, LastDay)

\* the server window asked for with a negative length on a day with one
\* message, the day before holding a message too
C21_Witness ==
    /\ reply.op = "server_windows"
    /\ reply.days < 0
    /\ reply.now > 0
    /\ reply.messages = 1
    /\ servers[reply.guild].daily_stats[date_key(reply.now - 1)].messages = 1

\* the users of guild g with a message in a bucket dated from the cutoff on
NonZeroUsers(g, days, now) == {u \in Users : WindowMessages(g, u, days, now) > 0}

Min(a, b) == IF a <= b THEN a ELSE b

\* C22: for limit >= 0 get_top_users_by_messages returns min(limit, number
\* of users with a non-zero in-window sum) entries, each a different user
\* paired with that user's exact in-window message sum, and no omitted user
\* has a larger in-window sum than a returned one.
C22_TopIsTheLargest ==
    reply.op = "top_users" =>
        LET g == reply.guild
            nonzero == NonZeroUsers(g, reply.days, reply.now)
            returned == {reply.top[i][1] : i \in 1..Len(reply.top)}
        IN  /\ Len(reply.top) = Min(reply.limit, Cardinality(nonzero))
            /\ Cardinality(returned) = Len(reply.top)
            /\ returned \subseteq nonzero
            /\ \A i \in 1..Len(reply.top) :
                  reply.top[i][2] = WindowMessages(g, reply.top[i][1], reply.days, reply.now)
            /\ \A u \in nonzero \ returned, v \in returned :
                  WindowMessages(g, u, reply.days, reply.now)
                      <= WindowMessages(g, v, reply.days, reply.now)

\* a ranking cut to one entry while two users have posted in the window, the
\* one left out having posted less
C22_Witness ==
    /\ reply.op = "top_users"
    /\ reply.limit = 1
    /\ Len(reply.top) = 1
    /\ \E u \in NonZeroUsers(reply.guild, reply.days, reply.now) :
          /\ u # reply.top[1][1]
          /\ WindowMessages(reply.guild, u, reply.days, reply.now) < reply.top[1][2]

\* C23: on_message calls record_message before it writes the recency cache:
\* after on_message for message m by user u has run without a store failure,
\* the author's message is counted and cache.get(m) returns u; when
\* record_message fails, whichever of its writes had gone through, the event
\* gives the cache no entry for m and leaves the cache as it was.
C23_CacheAfterRecord ==
    [][ListenerStep("message") =>
          LET m == event'.message_id
              u == event'.user
              k == user_key(event'.guild, u)
          IN  /\ event'.outcome = "ok" =>
                    /\ users'[k].total_messages = users[k].total_messages + 1
                    /\ get(cache', m).author = u
                    /\ cache'[Len(cache')] = <<m, u>>
              /\ event'.outcome = "caught" =>
                    /\ cache_lookup(cache', m) = cache_lookup(cache, m)
                    /\ cache' = cache]_vars

\* a message whose user write went through and whose server write failed: the
\* author's total is counted, the message is not cached
C23_Witness ==
    /\ event.op = "message"
    /\ event.outcome = "caught"
    /\ users[user_key(event.guild, event.user)].total_messages = 1
    /\ servers[event.guild].daily_stats[date_key(today)].messages = 0
    /\ cache_lookup(cache, event.message_id) = None

\* the step is a reaction listener's run that got as far as the author lookup
ReactionLookupStep ==
    /\ nops' = nops + 1
    /\ event'.op \in {"add", "remove"}
    /\ event'.outcome # "ignored"

\* C24: a reaction event goes to the external message fetch only when the
\* recency cache has no entry for the message; a cached message is resolved
\* to the cached author without a fetch; after a successful fetch the cache
\* holds message -> author, the message's true author, so that a following
\* reaction on the same message, while the entry is in the cache, resolves
\* the same author without a fetch.
C24_FetchOnlyOnMiss ==
    /\ [](\A i \in 1..Len(cache) : cache[i][2] = author_of(cache[i][1]))
    /\ [][ReactionLookupStep =>
            LET m == event'.message_id
            IN  /\ event'.fetch # "none" => cache_lookup(cache, m) = None
                /\ cache_lookup(cache, m) # None =>
                      /\ event'.fetch = "none"
                      /\ event'.author = cache_lookup(cache, m)
                      /\ cache_lookup(cache', m) = cache_lookup(cache, m)
                /\ event'.fetch = "ok" =>
                      /\ event'.author = author_of(m)
                      /\ cache_lookup(cache', m) = author_of(m)]_vars

\* a reaction resolved from the cache to an author who is a bot: on_message
\* never caches a bot's message, so the entry is the backfill of an earlier
\* reaction's fetch
C24_Witness ==
    /\ event.op \in {"add", "remove"}
    /\ event.outcome = "ok"
    /\ event.fetch = "none"
    /\ event.author = OtherBot
    /\ cache_lookup(cache, event.message_id) = OtherBot

\* the user records the write operation that `l` describes can be about
Involved(l) ==
    {user_key(l.guild, l.user)}
        \cup (IF l.author # None THEN {user_key(l.guild, l.author)} ELSE {})

\* C25: the set of user and server record keys only grows: no operation
\* deletes a record; a user record comes into being only in a record_message
\* for that (guild, user) or in a record_reaction_add with that user as
\* reactor or as author, and a record_reaction_remove creates no user record
\* and no server record.
C25_RecordsOnlyGrow ==
    [][/\ \A k \in Keys : users[k].exists => users'[k].exists
       /\ \A g \in Guilds : servers[g].exists => servers'[g].exists
       /\ \A k \in Keys : (~users[k].exists /\ users'[k].exists) =>
             /\ nops' = nops + 1
             /\ last'.op \in {"message", "add"}
             /\ k \in Involved(last')
       /\ (nops' = nops + 1 /\ last'.op \in {"remove", "add_remove"}) =>
             /\ \A k \in Keys : users'[k].exists = users[k].exists
             /\ \A g \in Guilds : servers'[g].exists = servers[g].exists]_vars

\* a reaction-remove by a reactor without a record, on a message whose author
\* has one: the reactor still has none
C25_Witness ==
    /\ last.op = "remove"
    /\ last.author # None
    /\ last.author # last.user
    /\ users[user_key(last.guild, last.author)].exists
    /\ ~users[user_key(last.guild, last.user)].exists

\* the step is a write to the store that leaves `op` as the last operation
WriteStep(ops) == nops' = nops + 1 /\ last'.op \in ops

\* C26: set_stats_channel_id and set_stats_message_id change their own
\* pointer only: every day bucket, the other pointer and every user record
\* stay as they were; record_message and the reaction operations change no
\* pointer; get_stats_message_id returns the value last passed to
\* set_stats_message_id, and nothing when none was set.
C26_PointersApart ==
    /\ [](\A g \in Guilds : get_stats_message_id(servers, g) = cog.last_message_id)
    /\ [](reply.op = "stats_message_id" => reply.message_id = cog.last_message_id)
    /\ [][\A g \in Guilds :
            /\ WriteStep({"set_stats_message_id"}) =>
                  /\ servers'[g].daily_stats = servers[g].daily_stats
                  /\ servers'[g].stats_channel_id = servers[g].stats_channel_id
                  /\ users' = users
            /\ WriteStep({"set_stats_channel_id"}) =>
                  /\ servers'[g].daily_stats = servers[g].daily_stats
                  /\ servers'[g].stats_message_id = servers[g].stats_message_id
                  /\ users' = users
            /\ WriteStep({"message", "add", "remove", "add_remove"}) =>
                  /\ servers'[g].stats_message_id = servers[g].stats_message_id
                  /\ servers'[g].stats_channel_id = servers[g].stats_channel_id]_vars

\* the pointer read back from a record that holds a day's message count,
\* written before the pointer was set
C26_Witness ==
    /\ reply.op = "stats_message_id"
    /\ reply.message_id # None
    /\ last.op = "set_stats_message_id"
    /\ servers[reply.guild].daily_stats[date_key(today)].messages = 1

\* the step is one refresh_stats_message
RefreshStep == cog'.runs = cog.runs + 1

PastSchedules == {p \in Procs : procs[p].op = "on_ready"
                                  /\ procs[p].pc \in {"refreshing", "done"}}

\* C28: after any number of on_ready events, however their awaits
\* interleave, the weekly loop and the monthly loop have each been started
\* exactly once: never twice, and once as soon as one on_ready has gone past
\* the check.
C28_SchedulesStartedOnce ==
    /\ cog.weekly_tasks <= 1
    /\ cog.monthly_tasks <= 1
    /\ cog.schedules_started <=> (cog.weekly_tasks = 1 /\ cog.monthly_tasks = 1)
    /\ PastSchedules # {} => (cog.weekly_tasks = 1 /\ cog.monthly_tasks = 1)
    /\ PastSchedules = {} => (cog.weekly_tasks = 0 /\ cog.monthly_tasks = 0)

\* every on_ready of the run has gone past the check, all of them through a
\* sync that failed, and one is still refreshing while another has ended
C28_Witness ==
    /\ PastSchedules = Procs
    /\ ~cog.synced
    /\ \E p, q \in Procs : procs[p].pc = "refreshing" /\ procs[q].pc = "done"
    /\ cog.weekly_tasks = 1
    /\ cog.monthly_tasks = 1

\* the step is the end of a refresh that the loop of schedule l awaited
LoopRefreshStep(l) == cog'.loops[l].rounds = cog.loops[l].rounds + 1

\* C29: a failure of one scheduled refresh does not stop the schedule: the
\* exception is caught and the loop sleeps until its next refresh. A loop
\* ends only by cancellation (cog_unload) or, for the weekly and the monthly
\* loop, when the bot has closed.
C29_FailureKeepsSchedule ==
    /\ [](\A l \in Schedules :
            cog.loops[l].pc = "ended" => (cog.unloaded \/ (l # "daily" /\ cog.closed)))
    /\ [][\A l \in Schedules :
            /\ (LoopRefreshStep(l) /\ cog'.loops[l].failed /\ ~cog.closed) =>
                  cog'.loops[l].pc = "sleeping"
            /\ (cog.loops[l].pc # "ended" /\ cog'.loops[l].pc = "ended") =>
                  \/ ~cog.unloaded /\ cog'.unloaded
                  \/ l # "daily" /\ cog.closed]_vars

\* the weekly loop awaiting its second refresh, the first having raised
C29_Witness ==
    /\ cog.loops["weekly"].failed
    /\ cog.loops["weekly"].rounds = 1
    /\ cog.loops["weekly"].pc = "refreshing"
    /\ ~cog.closed
    /\ ~cog.unloaded

\* a collection with every bucket under a key that names no day taken out
WellFormed(collection) ==
    [j \in DOMAIN collection |->
        [collection[j] EXCEPT
            !.daily_stats = [d \in DayKeys |-> collection[j].daily_stats[d]]]]

\* the buckets the store holds under keys that name no day
MalformedBuckets(doc) == {k \in DOMAIN doc.daily_stats : ValueError(k)}

\* C30: a stored day key that is no valid YYYY-MM-DD date adds nothing to any
\* windowed sum, active-user count or top-user ranking: each query returns
\* what it returns on the store without that key, which is the result
\* computed from the well-formed keys.
C30_MalformedKeySkipped ==
    /\ reply.op = "server_windows" =>
          LET clean == get_server_windows(WellFormed(servers), reply.guild,
                                          reply.days, reply.now)
          IN  /\ reply.messages = clean.messages
              /\ reply.reactions = clean.reactions
              /\ reply.active_users = clean.active_users
              /\ reply.messages = SumDays(servers[reply.guild].daily_stats, "messages",
                                          WindowStart(reply.days, reply.now), LastDay)
    /\ reply.op = "top_users" =>
          /\ \E cursor \in Cursors(users, reply.guild) :
                reply.top = get_top_users_by_messages(WellFormed(users), cursor,
                                                      reply.days, reply.limit, reply.now)
          /\ \A i \in 1..Len(reply.top) :
                reply.top[i][2] = WindowMessages(reply.guild, reply.top[i][1],
                                                 reply.days, reply.now)
    /\ reply.op = "user_summary" =>
          reply.summary = get_user_summary(WellFormed(users), reply.guild,
                                           reply.user, reply.now)

\* a server window that counts one message of one active user, while a
\* bucket under a malformed key holds messages of a user who is not counted
C30_Witness ==
    /\ reply.op = "server_windows"
    /\ reply.messages = 1
    /\ reply.active_users = 1
    /\ \E k \in MalformedBuckets(servers[reply.guild]) :
          /\ servers[reply.guild].daily_stats[k].messages > 0
          /\ \A d \in DayKeys :
                servers[reply.guild].daily_stats[k].active_users
                    \cap servers[reply.guild].daily_stats[d].active_users = {}

\* the reactions the users of guild g have given under day key d
RECURSIVE GivenOn(_, _, _)
GivenOn(g, d, us) ==
    IF us = {} THEN 0
    ELSE LET u == CHOOSE x \in us : TRUE
         IN  users[user_key(g, u)].daily_stats[d].reactions_given
                 + GivenOn(g, d, us \ {u})

\* C31: with events handled one at a time and no store call failing, in every
\* reached state and for every guild and day d the server's
\* daily_stats[d].reactions equals the sum of daily_stats[d].reactions_given
\* over the guild's users.
C31_ServerReactionsAreUsersGiven ==
    \A g \in Guilds, d \in DayKeys :
        servers[g].daily_stats[d].reactions = GivenOn(g, d, Users)

\* C32: in every state reached by events handled one at a time,
\* get_user_summary reports no more reactions given in the last 7 days than
\* in the user's lifetime: reactions_given_7d <= reactions_given.
C32_WindowWithinLifetime ==
    reply.op = "user_summary" =>
        reply.summary.reactions_given_7d <= reply.summary.reactions_given

\* the refreshes that have sent a message and not stored its id yet
Storing == {p \in Procs : procs[p].pc = "storing"}

====
